---------------------------- MODULE Spec2Model ----------------------------
(***************************************************************************)
(* Trip-cost and recommendation scoring engine of the travel planner:      *)
(* RecommendationService (services/recommendation_service.py) and the      *)
(* /api/destinations and /api/recommendations handlers of app.py.          *)
(*                                                                         *)
(* Spec is the service behind its two handlers.  SpecBudget calls the two  *)
(* static cost functions directly (openrouter_service.py calls             *)
(* calculate_transportation_cost so for a trip plan).                      *)
(* SpecPure interleaves direct calls with ranking requests and remembers   *)
(* one earlier call and what it returned.                                  *)
(*                                                                         *)
(* Numbers.  Python floats are modelled as fixed-point integers with four  *)
(* decimals: the float x is the integer x * Scale.  Money is in 1/10000 of *)
(* the reference currency unit, distances in 1/10000 km, ratings and       *)
(* scores in 1/10000.  A product with a decimal literal n/d of the source  *)
(* is MulC(x, n, d), rounded to the nearest unit.  round(x, 2) and         *)
(* round(x, 1) round half to even, as Python 3 does; at an exact decimal   *)
(* tie Python rounds the binary float nearest to the value, whose error    *)
(* fixed point does not carry, so the inputs of the model are chosen to    *)
(* keep every rounded value off a tie.  Counts (reviews, days, limit) and  *)
(* coordinates in whole degrees are plain integers.                        *)
(* Python's None is the value None for numbers and NoneStr for strings.    *)
(***************************************************************************)
EXTENDS Integers, Sequences, FiniteSets, TLC

VARIABLES destinations, pc, request, result, call, ret, memo, trip_plans, trip_participants, handlers

vars == <<destinations, pc, request, result, call, ret, memo, trip_plans, trip_participants, handlers>>

\* The variables of the trip plans, and all the others.
tripvars == <<trip_plans, trip_participants, handlers>>

rankvars == <<destinations, pc, request, result, call, ret, memo>>

-----------------------------------------------------------------------------
(* Values *)

Scale == 100 * 100

None == -999999999

NoneStr == "None"

\* None where a dictionary is expected (budget_breakdown).
NoneDict == [none |-> TRUE]

Inf == 2000000000

\* Python truthiness of an optional number: None and 0 are both false.
Truthy(x) == x # None /\ x # 0

\* Python truthiness of an optional string: None and '' are both false.
TruthyStr(s) == s # NoneStr /\ s # ""

\* x or default, for numbers.
OrElse(x, default) == IF Truthy(x) THEN x ELSE default

\* x * (n / d) for a decimal literal n/d, to the nearest unit (floor division
\* keeps the identity x = d * (x \div d) + x % d for negative x too).
MulC(x, n, d) == (x \div d) * n + ((x % d) * n + d \div 2) \div d

\* round half to even of x to a multiple of u.
RoundTo(x, u) ==
    LET q == x \div u
        r == x % u
    IN  IF 2 * r < u THEN q * u
        ELSE IF 2 * r > u THEN (q + 1) * u
        ELSE IF q % 2 = 0 THEN q * u ELSE (q + 1) * u

\* round(x, 2)
Round2(x) == RoundTo(x, Scale \div 100)

\* round(x, 1)
Round1(x) == RoundTo(x, Scale \div 10)

Max(a, b) == IF a >= b THEN a ELSE b

Min(a, b) == IF a <= b THEN a ELSE b

-----------------------------------------------------------------------------
(* calculate_distance: the Haversine formula with EARTH_RADIUS_KM = 6371,   *)
(* evaluated on the coordinate grid of the model (whole degrees) and        *)
(* tabulated in 1/10000 km.                                                 *)

EARTH_RADIUS_KM == 6371

HaversineTable ==
     <<0,10,0,10>> :> 0 @@ <<0,10,0,20>> :> 11119493 @@ <<0,10,10,10>> :> 11119493 @@ <<0,10,10,20>> :> 15685206 @@ <<0,10,20,10>> :> 22238985 @@ <<0,10,20,20>> :> 24761714 @@
     <<0,20,0,10>> :> 11119493 @@ <<0,20,0,20>> :> 0 @@ <<0,20,10,10>> :> 15685206 @@ <<0,20,10,20>> :> 11119493 @@ <<0,20,20,10>> :> 24761714 @@ <<0,20,20,20>> :> 22238985 @@
     <<10,10,0,10>> :> 11119493 @@ <<10,10,0,20>> :> 15685206 @@ <<10,10,10,10>> :> 0 @@ <<10,10,10,20>> :> 10950142 @@ <<10,10,20,10>> :> 11119493 @@ <<10,10,20,20>> :> 15447576 @@
     <<10,20,0,10>> :> 15685206 @@ <<10,20,0,20>> :> 11119493 @@ <<10,20,10,10>> :> 10950142 @@ <<10,20,10,20>> :> 0 @@ <<10,20,20,10>> :> 15447576 @@ <<10,20,20,20>> :> 11119493 @@
     <<20,10,0,10>> :> 22238985 @@ <<20,10,0,20>> :> 24761714 @@ <<20,10,10,10>> :> 11119493 @@ <<20,10,10,20>> :> 15447576 @@ <<20,10,20,10>> :> 0 @@ <<20,10,20,20>> :> 10447350 @@
     <<20,20,0,10>> :> 24761714 @@ <<20,20,0,20>> :> 22238985 @@ <<20,20,10,10>> :> 15447576 @@ <<20,20,10,20>> :> 11119493 @@ <<20,20,20,10>> :> 10447350 @@ <<20,20,20,20>> :> 0

calculate_distance(lat1, lon1, lat2, lon2) == HaversineTable[<<lat1, lon1, lat2, lon2>>]

-----------------------------------------------------------------------------
(* calculate_transportation_cost *)

\* TransportBand without its second band: a distance below 300 km is priced
\* as local travel.
TransportBandWithoutRegionalBand(distance_km) ==
    IF distance_km < 300 * Scale THEN 1
    ELSE IF distance_km < 1000 * Scale THEN 3
    ELSE IF distance_km < 3000 * Scale THEN 4
    ELSE 5

\* TransportBand without its else branch: every distance from 1000 km on is
\* in the fourth band.
TransportBandWithoutLastBand(distance_km) ==
    IF distance_km < 50 * Scale THEN 1
    ELSE IF distance_km < 300 * Scale THEN 2
    ELSE IF distance_km < 1000 * Scale THEN 3
    ELSE 4

\* TransportBand with <= for <: intervals closed on the right.
TransportBandClosedOnTheRight(distance_km) ==
    IF distance_km <= 50 * Scale THEN 1
    ELSE IF distance_km <= 300 * Scale THEN 2
    ELSE IF distance_km <= 1000 * Scale THEN 3
    ELSE IF distance_km <= 3000 * Scale THEN 4
    ELSE 5

\* The band of a distance, decided by the chain of < tests.
TransportBand(distance_km) ==
    IF distance_km < 50 * Scale THEN 1
    ELSE IF distance_km < 300 * Scale THEN 2
    ELSE IF distance_km < 1000 * Scale THEN 3
    ELSE IF distance_km < 3000 * Scale THEN 4
    ELSE 5

calculate_transportation_cost(distance_km) ==
    LET d == distance_km
        band == TransportBand(d)
    IN  CASE band = 1 ->
               LET bus == Round2(MulC(d, 50, 100))
               IN  [bus |-> bus,
                    taxi |-> Round2(MulC(d, 150, 100)),
                    recommended |-> bus]
          [] band = 2 ->
               LET bus == Round2(50 * Scale + MulC(d - 50 * Scale, 15, 100))
               IN  [bus |-> bus,
                    train |-> Round2(40 * Scale + MulC(d - 50 * Scale, 20, 100)),
                    taxi |-> Round2(MulC(d, 120, 100)),
                    recommended |-> bus]
          [] band = 3 ->
               LET budget_flight == Round2(100 * Scale + MulC(d - 300 * Scale, 25, 100))
               IN  [train |-> Round2(80 * Scale + MulC(d - 300 * Scale, 12, 100)),
                    budget_flight |-> budget_flight,
                    standard_flight |-> Round2(150 * Scale + MulC(d - 300 * Scale, 35, 100)),
                    recommended |-> budget_flight]
          [] band = 4 ->
               LET budget_flight == Round2(250 * Scale + MulC(d - 1000 * Scale, 15, 100))
               IN  [budget_flight |-> budget_flight,
                    standard_flight |-> Round2(400 * Scale + MulC(d - 1000 * Scale, 20, 100)),
                    premium_flight |-> Round2(800 * Scale + MulC(d - 1000 * Scale, 30, 100)),
                    recommended |-> budget_flight]
          [] OTHER ->
               LET budget_flight == Round2(550 * Scale + MulC(d - 3000 * Scale, 8, 100))
               IN  [budget_flight |-> budget_flight,
                    standard_flight |-> Round2(900 * Scale + MulC(d - 3000 * Scale, 12, 100)),
                    business_flight |-> Round2(2000 * Scale + MulC(d - 3000 * Scale, 25, 100)),
                    recommended |-> budget_flight]

-----------------------------------------------------------------------------
(* calculate_comprehensive_budget *)

\* The food multipliers replaced by the accommodation multipliers.
food_multiplier_of_accommodation(budget_tier) ==
    CASE budget_tier = "budget" -> 6
      [] budget_tier = "mid-range" -> 10
      [] budget_tier = "luxury" -> 25
      [] OTHER -> 10

\* {'budget': 0.6, 'mid-range': 1.0, 'luxury': 2.5}.get(budget_tier, 1.0), in tenths
accommodation_multiplier(budget_tier) ==
    CASE budget_tier = "budget" -> 6
      [] budget_tier = "mid-range" -> 10
      [] budget_tier = "luxury" -> 25
      [] OTHER -> 10

\* {'budget': 0.7, 'mid-range': 1.0, 'luxury': 2.0}.get(budget_tier, 1.0), in tenths
food_multiplier(budget_tier) ==
    CASE budget_tier = "budget" -> 7
      [] budget_tier = "mid-range" -> 10
      [] budget_tier = "luxury" -> 20
      [] OTHER -> 10

\* calculate_comprehensive_budget with three of its choices left open: the
\* transport estimate it prices, the number of trips it counts
\* (2: there and back) and the last duration for which per_day_average is 0.
BudgetVariant(transport_costs, trips, last_free_day, duration_days, destination_daily_cost, budget_tier) ==
    LET transport_total == transport_costs.recommended * trips
        am == accommodation_multiplier(budget_tier)
        accommodation_per_night == MulC(MulC(destination_daily_cost, 4, 10), am, 10)
        accommodation_total == accommodation_per_night * duration_days
        fm == food_multiplier(budget_tier)
        food_per_day == MulC(MulC(destination_daily_cost, 35, 100), fm, 10)
        food_total == food_per_day * duration_days
        local_transport_per_day == MulC(MulC(destination_daily_cost, 15, 100), am, 10)
        local_transport_total == local_transport_per_day * duration_days
        activities_per_day == MulC(destination_daily_cost, 10, 100)
        activities_total == activities_per_day * duration_days
        misc_total == MulC(food_total + activities_total, 15, 100)
        subtotal == transport_total + accommodation_total + food_total
                    + local_transport_total + activities_total + misc_total
        insurance == MulC(subtotal, 5, 100)
        total_before_contingency == subtotal + insurance
        contingency == MulC(total_before_contingency, 10, 100)
        grand_total == total_before_contingency + contingency
    IN  [transportation |-> Round2(transport_total),
         transportation_options |-> transport_costs,
         accommodation |-> Round2(accommodation_total),
         accommodation_per_night |-> Round2(accommodation_per_night),
         food |-> Round2(food_total),
         food_per_day |-> Round2(food_per_day),
         local_transport |-> Round2(local_transport_total),
         activities |-> Round2(activities_total),
         miscellaneous |-> Round2(misc_total),
         insurance |-> Round2(insurance),
         contingency |-> Round2(contingency),
         subtotal |-> Round2(subtotal),
         total |-> Round2(grand_total),
         per_day_average |-> IF duration_days > last_free_day
                             THEN Round2((2 * grand_total + duration_days) \div (2 * duration_days))
                             ELSE 0]

\* calculate_comprehensive_budget pricing the way there only.
calculate_comprehensive_budget_one_way(distance_km, duration_days, destination_daily_cost, budget_tier) ==
    BudgetVariant(calculate_transportation_cost(distance_km), 1, 0,
                  duration_days, destination_daily_cost, budget_tier)

\* calculate_comprehensive_budget with a per_day_average of 0 for one day too.
calculate_comprehensive_budget_no_average_for_a_day(distance_km, duration_days, destination_daily_cost, budget_tier) ==
    BudgetVariant(calculate_transportation_cost(distance_km), 2, 1,
                  duration_days, destination_daily_cost, budget_tier)

\* calculate_comprehensive_budget with the daily cost capped at 100.
calculate_comprehensive_budget_capped(distance_km, duration_days, destination_daily_cost, budget_tier) ==
    BudgetVariant(calculate_transportation_cost(distance_km), 2, 0,
                  duration_days, Min(destination_daily_cost, 100 * Scale), budget_tier)

\* calculate_comprehensive_budget keeping the last transport estimate: after a
\* direct calculate_transportation_cost it prices that estimate again.
calculate_comprehensive_budget_keeping_estimate(distance_km, duration_days, destination_daily_cost, budget_tier) ==
    BudgetVariant(IF call.fn = "calculate_transportation_cost" THEN ret
                  ELSE calculate_transportation_cost(distance_km), 2, 0,
                  duration_days, destination_daily_cost, budget_tier)

calculate_comprehensive_budget(distance_km, duration_days, destination_daily_cost, budget_tier) ==
    LET transport_costs == calculate_transportation_cost(distance_km)
        transport_total == transport_costs.recommended * 2
        am == accommodation_multiplier(budget_tier)
        accommodation_per_night == MulC(MulC(destination_daily_cost, 4, 10), am, 10)
        accommodation_total == accommodation_per_night * duration_days
        fm == food_multiplier(budget_tier)
        food_per_day == MulC(MulC(destination_daily_cost, 35, 100), fm, 10)
        food_total == food_per_day * duration_days
        local_transport_per_day == MulC(MulC(destination_daily_cost, 15, 100), am, 10)
        local_transport_total == local_transport_per_day * duration_days
        activities_per_day == MulC(destination_daily_cost, 10, 100)
        activities_total == activities_per_day * duration_days
        misc_total == MulC(food_total + activities_total, 15, 100)
        subtotal == transport_total + accommodation_total + food_total
                    + local_transport_total + activities_total + misc_total
        insurance == MulC(subtotal, 5, 100)
        total_before_contingency == subtotal + insurance
        contingency == MulC(total_before_contingency, 10, 100)
        grand_total == total_before_contingency + contingency
    IN  [transportation |-> Round2(transport_total),
         transportation_options |-> transport_costs,
         accommodation |-> Round2(accommodation_total),
         accommodation_per_night |-> Round2(accommodation_per_night),
         food |-> Round2(food_total),
         food_per_day |-> Round2(food_per_day),
         local_transport |-> Round2(local_transport_total),
         activities |-> Round2(activities_total),
         miscellaneous |-> Round2(misc_total),
         insurance |-> Round2(insurance),
         contingency |-> Round2(contingency),
         subtotal |-> Round2(subtotal),
         total |-> Round2(grand_total),
         per_day_average |-> IF duration_days > 0
                             THEN Round2((2 * grand_total + duration_days) \div (2 * duration_days))
                             ELSE 0]

-----------------------------------------------------------------------------
(* Destination rows (models.py) and the rows POST /api/destinations stores.  *)
(* tags and other text columns hold None for an empty value (app.py: x or    *)
(* None); a tag string is a sequence of characters, <<>> for None.           *)

Destination(id, category, tier, lat, lon, cost, rating, reviews, popularity, tags) ==
    [id |-> id, category |-> category, budget_tier |-> tier,
     latitude |-> lat, longitude |-> lon,
     average_cost_per_day |-> cost, rating |-> rating,
     review_count |-> reviews, popularity_score |-> popularity,
     tags |-> tags]

\* The rows a client posts in the model; id is the primary key the insert
\* assigns.
DestinationPool(id) ==
    { Destination(id, "beach", NoneStr, None, None, None, 4 * Scale, 50, 10 * Scale,
                  <<"p", "a", "r", "t", "y">>),
      Destination(id, "city", NoneStr, None, None, None, 5 * Scale, 200, 5 * Scale,
                  <<"a", "r", "t">>),
      Destination(id, NoneStr, NoneStr, None, 10, None, 3 * Scale, 0, 1 * Scale, <<>>),
      Destination(id, "beach", "mid-range", 10, 10, 100 * Scale, 45000, 10, 25600, <<>>),
      Destination(id, "city", "budget", 20, 10, 50 * Scale, None, None, None,
                  <<"z", "o", "o">>),
      Destination(id, "park", "luxury", 0, 20, 200 * Scale, 35000, 120, 0, <<>>),
      Destination(id, "park", NoneStr, 20, 10, 0, 4 * Scale, 50, 10 * Scale, <<>>) }

-----------------------------------------------------------------------------
(* get_recommendations *)

\* The SQL operator LIKE: % of the pattern stands for any run of characters,
\* _ for any one character, every other character for itself (the tags of
\* the model are lower case, so the case rules of the database play no part).
RECURSIVE LikeMatch(_, _)
LikeMatch(s, pattern) ==
    IF pattern = <<>> THEN s = <<>>
    ELSE IF Head(pattern) = "%"
         THEN LikeMatch(s, Tail(pattern)) \/ (s # <<>> /\ LikeMatch(Tail(s), pattern))
         ELSE /\ s # <<>>
              /\ Head(pattern) = "_" \/ Head(pattern) = Head(s)
              /\ LikeMatch(Tail(s), Tail(pattern))

\* Line 218, Destination.tags.like(f'%{tag}%'): the requested tag is put
\* into the pattern as it came, its own % and _ included.
Contains(tags, tag) == LikeMatch(tags, <<"%">> \o tag \o <<"%">>)

\* The WHERE clause built from the optional filters; a comparison with a NULL
\* column is not true, so the row is left out.
PassesQuery(dest, req) ==
    /\ req.budget_min # None =>
          dest.average_cost_per_day # None /\ dest.average_cost_per_day >= req.budget_min
    /\ req.budget_max # None =>
          dest.average_cost_per_day # None /\ dest.average_cost_per_day <= req.budget_max
    /\ req.categories # {} => dest.category \in req.categories
    /\ req.min_rating # None => dest.rating # None /\ dest.rating >= req.min_rating
    /\ req.tags # <<>> =>
          \E k \in 1..Len(req.tags) : dest.tags # <<>> /\ Contains(dest.tags, req.tags[k])

\* Lines 231-234: the distance, computed when the user's coordinates are not
\* None and both of the destination's coordinates are truthy.
DistanceOf(dest, user_lat, user_lon) ==
    IF user_lat # None /\ user_lon # None /\ Truthy(dest.latitude) /\ Truthy(dest.longitude)
    THEN calculate_distance(user_lat, user_lon, dest.latitude, dest.longitude)
    ELSE None

\* Skipped without its elif branch: only a destination found too far is left
\* out.
SkippedOnlyWhenTooFar(dest, req) ==
    /\ req.user_lat # None /\ req.user_lon # None
    /\ Truthy(dest.latitude) /\ Truthy(dest.longitude)
    /\ Truthy(req.max_distance_km)
    /\ DistanceOf(dest, req.user_lat, req.user_lon) > req.max_distance_km

\* Lines 231-239: the two continue statements of the loop.
Skipped(dest, req) ==
    IF req.user_lat # None /\ req.user_lon # None
       /\ Truthy(dest.latitude) /\ Truthy(dest.longitude)
    THEN Truthy(req.max_distance_km)
         /\ DistanceOf(dest, req.user_lat, req.user_lon) > req.max_distance_km
    ELSE Truthy(req.max_distance_km)
         /\ (~Truthy(dest.latitude) \/ ~Truthy(dest.longitude))

\* Lines 242-254: the breakdown, or None.
BudgetBreakdownOf(dest, distance, trip_duration_days) ==
    IF distance # None /\ Truthy(dest.average_cost_per_day)
    THEN calculate_comprehensive_budget(
             distance, trip_duration_days, dest.average_cost_per_day,
             IF TruthyStr(dest.budget_tier) THEN dest.budget_tier ELSE "mid-range")
    ELSE NoneDict

PopularityWeight == 40

RatingWeight == 30

\* The review weight as the comment of line 259 has it, 10%.
CommentedReviewWeight == 100 \div 10

ReviewWeight == 1

AffordabilityWeight == 20

DistanceWeight == 10

\* Lines 262-268: the affordability addend of the score.
AffordabilityTerm(dest, total_trip_cost) ==
    IF Truthy(total_trip_cost)
    THEN LET affordability_score ==
                 Max(0, MulC(5000 * Scale - total_trip_cost, 1, 5000)) * 5
         IN  MulC(affordability_score, AffordabilityWeight, 100)
    ELSE MulC(5 * Scale - MulC(OrElse(dest.average_cost_per_day, 100 * Scale), 1, 50),
              AffordabilityWeight, 100)

\* a / b for two floats, as a multiple of 1/unit (long division, one decimal
\* digit a step).
RECURSIVE Quotient(_, _, _)
Quotient(a, b, unit) ==
    IF unit = 1 THEN a \div b
    ELSE (a \div b) * unit + Quotient((a % b) * 10, b, unit \div 10)

\* Lines 271-273: the distance addend of the score.
DistanceTerm(distance, max_distance_km) ==
    IF distance # None /\ Truthy(max_distance_km)
    THEN LET distance_score ==
                 Max(0, Quotient(max_distance_km - distance, max_distance_km, Scale))
         IN  MulC(distance_score, DistanceWeight, 100)
    ELSE 0

\* Score without the review count addend.
ScoreWithoutReviews(dest, distance, total_trip_cost, max_distance_km) ==
    MulC(OrElse(dest.popularity_score, 0), PopularityWeight, 100)
    + MulC(OrElse(dest.rating, 3 * Scale), RatingWeight, 100)
    + AffordabilityTerm(dest, total_trip_cost)
    + DistanceTerm(distance, max_distance_km)

\* Lines 257-273: the score before rounding.
Score(dest, distance, total_trip_cost, max_distance_km) ==
    MulC(OrElse(dest.popularity_score, 0), PopularityWeight, 100)
    + MulC(OrElse(dest.rating, 3 * Scale), RatingWeight, 100)
    + MulC(OrElse(dest.review_count, 0) * Scale, ReviewWeight, 100)
    + AffordabilityTerm(dest, total_trip_cost)
    + DistanceTerm(distance, max_distance_km)

\* Lines 257-273: the weights of the addends that make up the score, in
\* hundredths: the first four always, the distance weight with its addend.
AppliedWeights(distance, max_distance_km) ==
    PopularityWeight + RatingWeight + ReviewWeight + AffordabilityWeight
    + (IF distance # None /\ Truthy(max_distance_km) THEN DistanceWeight ELSE 0)

\* Lines 276-304: the recommendation built for one destination.
Recommendation(dest, req) ==
    LET distance == DistanceOf(dest, req.user_lat, req.user_lon)
        budget_breakdown == BudgetBreakdownOf(dest, distance, req.trip_duration_days)
        total_trip_cost == IF budget_breakdown # NoneDict THEN budget_breakdown.total ELSE None
    IN  [id |-> dest.id,
         category |-> dest.category,
         budget_tier |-> dest.budget_tier,
         latitude |-> dest.latitude,
         longitude |-> dest.longitude,
         average_cost_per_day |-> dest.average_cost_per_day,
         rating |-> dest.rating,
         review_count |-> dest.review_count,
         popularity_score |-> dest.popularity_score,
         tags |-> dest.tags,
         distance_km |-> IF Truthy(distance) THEN Round1(distance) ELSE None,
         trip_duration_days |-> req.trip_duration_days,
         recommendation_score |->
             Round2(Score(dest, distance, total_trip_cost, req.max_distance_km)),
         budget_breakdown |-> budget_breakdown,
         total_trip_cost |-> total_trip_cost,
         estimated_cost_per_day |->
             IF budget_breakdown # NoneDict THEN budget_breakdown.per_day_average ELSE None]

\* Lines 309-316: the branch of the sort that is taken.
SortBranch(sort_by, user_lat, user_lon) ==
    IF sort_by = "distance" /\ Truthy(user_lat) /\ Truthy(user_lon) THEN "distance"
    ELSE IF sort_by = "rating" THEN "rating"
    ELSE IF sort_by = "cost" THEN "cost"
    ELSE "popularity"

\* The key lambda of each branch.
SortKey(rec, branch) ==
    CASE branch = "distance" -> OrElse(rec.distance_km, Inf)
      [] branch = "rating" -> OrElse(rec.rating, 0)
      [] branch = "cost" -> OrElse(rec.average_cost_per_day, Inf)
      [] OTHER -> rec.recommendation_score

\* reverse=True of each branch.
Reverse(branch) == branch \in {"rating", "popularity"}

\* Before with the comparison not strict: equal keys change places.
BeforeOrEqual(kx, ky, reverse) == IF reverse THEN kx >= ky ELSE kx <= ky

\* x goes before y in the sorted list whenever this holds of their keys.
Before(kx, ky, reverse) == IF reverse THEN kx > ky ELSE kx < ky

\* list.sort is stable: x is placed in front of the first element it goes
\* strictly before, so behind every element with an equal key.
InsertSorted(sorted, x, branch) ==
    LET ahead == {i \in 1..Len(sorted) :
                     Before(SortKey(x, branch), SortKey(sorted[i], branch), Reverse(branch))}
        at == IF ahead = {} THEN Len(sorted) + 1
              ELSE CHOOSE i \in ahead : \A j \in ahead : i <= j
    IN  SubSeq(sorted, 1, at - 1) \o <<x>> \o SubSeq(sorted, at, Len(sorted))

RECURSIVE SortRecommendations(_, _)
SortRecommendations(recommendations, branch) ==
    IF recommendations = <<>> THEN <<>>
    ELSE InsertSorted(
             SortRecommendations(SubSeq(recommendations, 1, Len(recommendations) - 1), branch),
             recommendations[Len(recommendations)], branch)

\* Truncate with the slice one element too long.
TruncateOneTooMany(recommendations, limit) ==
    IF limit >= 0 THEN SubSeq(recommendations, 1, Min(limit + 1, Len(recommendations)))
    ELSE SubSeq(recommendations, 1, Max(0, Len(recommendations) + limit + 1))

\* recommendations[:limit]; a negative limit counts from the end of the list.
Truncate(recommendations, limit) ==
    IF limit >= 0 THEN SubSeq(recommendations, 1, Min(limit, Len(recommendations)))
    ELSE SubSeq(recommendations, 1, Max(0, Len(recommendations) + limit))

\* Lines 226-306: the loop over the rows the query returned; query.all() has
\* no ORDER BY and is taken to return the rows in table (id) order.
RECURSIVE ScoreAll(_, _)
ScoreAll(dests, req) ==
    IF dests = <<>> THEN <<>>
    ELSE LET rest == ScoreAll(Tail(dests), req)
         IN  IF Skipped(Head(dests), req) THEN rest
             ELSE <<Recommendation(Head(dests), req)>> \o rest

\* get_recommendations with the slice taken before the sort.
get_recommendations_truncating_first(table, req) ==
    LET dests == SelectSeq(table, LAMBDA d : PassesQuery(d, req))
        recommendations == ScoreAll(dests, req)
    IN  SortRecommendations(
            Truncate(recommendations, req.limit),
            SortBranch(req.sort_by, req.user_lat, req.user_lon))

get_recommendations(table, req) ==
    LET dests == SelectSeq(table, LAMBDA d : PassesQuery(d, req))
        recommendations == ScoreAll(dests, req)
        sorted == SortRecommendations(
                      recommendations, SortBranch(req.sort_by, req.user_lat, req.user_lon))
    IN  Truncate(sorted, req.limit)

-----------------------------------------------------------------------------
(* update_popularity_scores *)

\* Lines 401-405: the score of one row, from its rating and review count.
popularity_score_of(dest) ==
    LET base_score == MulC(OrElse(dest.rating, 3 * Scale), 5, 10)
        review_score == MulC(Min(OrElse(dest.review_count, 0) * (Scale \div 100), Scale), 3, 10)
        recency_score == MulC(Scale, 2, 10)
    IN  base_score + review_score + recency_score

\* The job keeping the score a row already has when that one is higher.
update_popularity_scores_keeping_higher(table) ==
    [k \in DOMAIN table |->
        [table[k] EXCEPT !.popularity_score = Max(@, popularity_score_of(table[k]))]]

\* Lines 396-406: the table the job commits.
update_popularity_scores(table) ==
    [k \in DOMAIN table |->
        [table[k] EXCEPT !.popularity_score = popularity_score_of(table[k])]]

-----------------------------------------------------------------------------
(* CostCalculationService (cost_calculation_service.py).  Its amounts are    *)
(* rupees: a cost before rounding is in 1/10000, a cost after round() is a   *)
(* whole number.  The name, the icon and the formatted duration of a mode    *)
(* are texts derived from the mode and the minutes and are left out.         *)

\* round(x) of a value in 1/10000: the nearest whole number, half to even.
Round0(x) == RoundTo(x, Scale) \div Scale

\* int(distance_km * n / d) for a distance of 0 or more.
Minutes(distance_km, n, d) ==
    ((distance_km \div d) * n + ((distance_km % d) * n) \div d) \div Scale

\* The coordinates the cost service is called with in the model, in whole
\* degrees, and CostCalculationService.calculate_distance (R = 6371)
\* tabulated on them in 1/10000 km.
CostServicePoints == {<<10, 10>>, <<10, 11>>, <<70, 10>>, <<70, 11>>, <<20, 10>>, <<0, 10>>}

CostServiceHaversineTable ==
     <<10,10,10,10>> :> 0 @@ <<10,10,10,11>> :> 1095056 @@ <<10,10,70,10>> :> 66716956 @@ <<10,10,70,11>> :> 66720730 @@ <<10,10,20,10>> :> 11119493 @@ <<10,10,0,10>> :> 11119493 @@
     <<10,11,10,10>> :> 1095056 @@ <<10,11,10,11>> :> 0 @@ <<10,11,70,10>> :> 66720730 @@ <<10,11,70,11>> :> 66716956 @@ <<10,11,20,10>> :> 11171086 @@ <<10,11,0,10>> :> 11174389 @@
     <<70,10,10,10>> :> 66716956 @@ <<70,10,10,11>> :> 66720730 @@ <<70,10,70,10>> :> 0 @@ <<70,10,70,11>> :> 380305 @@ <<70,10,20,10>> :> 55597463 @@ <<70,10,0,10>> :> 77836449 @@
     <<70,11,10,10>> :> 66720730 @@ <<70,11,10,11>> :> 66716956 @@ <<70,11,70,10>> :> 380305 @@ <<70,11,70,11>> :> 0 @@ <<70,11,20,10>> :> 55601534 @@ <<70,11,0,10>> :> 77839980 @@
     <<20,10,10,10>> :> 11119493 @@ <<20,10,10,11>> :> 11171086 @@ <<20,10,70,10>> :> 55597463 @@ <<20,10,70,11>> :> 55601534 @@ <<20,10,20,10>> :> 0 @@ <<20,10,0,10>> :> 22238985 @@
     <<0,10,10,10>> :> 11119493 @@ <<0,10,10,11>> :> 11174389 @@ <<0,10,70,10>> :> 77836449 @@ <<0,10,70,11>> :> 77839980 @@ <<0,10,20,10>> :> 22238985 @@ <<0,10,0,10>> :> 0

\* The distance counted longer on the way north than on the way back.
CostCalculationService_calculate_distance_longer_northward(lat1, lon1, lat2, lon2) ==
    CostServiceHaversineTable[<<lat1, lon1, lat2, lon2>>] + (IF lat1 < lat2 THEN Scale ELSE 0)

CostCalculationService_calculate_distance(lat1, lon1, lat2, lon2) ==
    CostServiceHaversineTable[<<lat1, lon1, lat2, lon2>>]

\* One entry of transport_options after the loop of lines 312-322 has
\* rounded its cost.
TransportMode(cost, duration_minutes, available) ==
    [cost |-> Round0(cost), duration_minutes |-> duration_minutes, available |-> available]

\* LocaleBand with <= for <: a boundary distance falls in the lower band.
LocaleBandClosedOnTheRight(distance_km) ==
    IF distance_km <= 20 * Scale THEN 1
    ELSE IF distance_km <= 100 * Scale THEN 2
    ELSE IF distance_km <= 500 * Scale THEN 3
    ELSE IF distance_km <= 1500 * Scale THEN 4
    ELSE 5

\* The if/elif chain of lines 171, 199, 226, 260, 287.
LocaleBand(distance_km) ==
    IF distance_km < 20 * Scale THEN 1
    ELSE IF distance_km < 100 * Scale THEN 2
    ELSE IF distance_km < 500 * Scale THEN 3
    ELSE IF distance_km < 1500 * Scale THEN 4
    ELSE 5

\* Lines 161-324; recommended_cost is not rounded.
CostCalculationService_calculate_transportation_cost(distance_km) ==
    LET d == distance_km
        band == LocaleBand(d)
    IN  IF band = 1 THEN
            [auto |-> TransportMode(Max(50 * Scale, d * 15), Minutes(d, 3, 1), TRUE),
             cab |-> TransportMode(Max(80 * Scale, d * 18), Minutes(d, 25, 10), TRUE),
             bus |-> TransportMode(Max(20 * Scale, d * 2), Minutes(d, 4, 1), TRUE),
             recommended |-> "auto",
             recommended_cost |-> Max(50 * Scale, d * 15)]
        ELSE IF band = 2 THEN
            [bus |-> TransportMode(Max(100 * Scale, MulC(d, 15, 10)), Minutes(d, 15, 10), TRUE),
             train |-> TransportMode(Max(150 * Scale, d * 2), Minutes(d, 12, 10), TRUE),
             cab |-> TransportMode(Max(500 * Scale, d * 12), Minutes(d, 12, 10), TRUE),
             recommended |-> "train",
             recommended_cost |-> Max(150 * Scale, d * 2)]
        ELSE IF band = 3 THEN
            [bus |-> TransportMode(Max(400 * Scale, MulC(d, 12, 10)), Minutes(d, 15, 10), TRUE),
             train |-> TransportMode(Max(600 * Scale, MulC(d, 18, 10)), Minutes(d, 1, 1), TRUE),
             flight |-> TransportMode(Max(2500 * Scale, Min(8000 * Scale, d * 5)),
                                      Minutes(d, 5, 10) + 120, d > 300 * Scale),
             cab |-> TransportMode(Max(3000 * Scale, d * 10), Minutes(d, 12, 10), TRUE),
             recommended |-> "train",
             recommended_cost |-> Max(600 * Scale, MulC(d, 18, 10))]
        ELSE IF band = 4 THEN
            [train |-> TransportMode(Max(1200 * Scale, MulC(d, 15, 10)), Minutes(d, 8, 10), TRUE),
             flight |-> TransportMode(Max(3500 * Scale, Min(12000 * Scale, d * 4)),
                                      Minutes(d, 4, 10) + 150, TRUE),
             bus |-> TransportMode(Max(1000 * Scale, d), Minutes(d, 15, 10), TRUE),
             recommended |-> "flight",
             recommended_cost |-> Max(3500 * Scale, Min(12000 * Scale, d * 4))]
        ELSE
            LET flight_cost == Min(50000 * Scale, Max(5000 * Scale, MulC(d, 35, 10)))
            IN  [flight |-> TransportMode(flight_cost, Minutes(d, 35, 100) + 180, TRUE),
                 train |-> TransportMode(Max(2000 * Scale, MulC(d, 12, 10)), Minutes(d, 8, 10),
                                         d < 3000 * Scale),
                 recommended |-> "flight",
                 recommended_cost |-> flight_cost]

\* The entries of COST_OF_LIVING_INDEX for the destinations of the model (a
\* destination of the model is one of these keys or matches none).
COST_OF_LIVING_INDEX ==
    [mumbai |-> 100, bangalore |-> 98, jaipur |-> 75, tokyo |-> 180]

BASE_DAILY_COSTS ==
    [accommodation |-> 2000, food |-> 800, local_transport |-> 400, activities |-> 500]

\* In tenths.
BUDGET_MULTIPLIERS == [budget |-> 6, luxury |-> 25] @@ ("mid-range" :> 10)

\* Lines 326-339, in hundredths; 1.0 for a destination that is not found.
get_destination_cost_index(destination) ==
    IF destination \in DOMAIN COST_OF_LIVING_INDEX
    THEN COST_OF_LIVING_INDEX[destination]
    ELSE 100

\* Lines 341-353: round(base_cost * cost_index * budget_multiplier) for each
\* category, and their sum.
calculate_daily_costs(destination, budget) ==
    LET cost_index == get_destination_cost_index(destination)
        budget_multiplier ==
            IF budget \in DOMAIN BUDGET_MULTIPLIERS THEN BUDGET_MULTIPLIERS[budget] ELSE 10
        daily(category) ==
            Round0(BASE_DAILY_COSTS[category] * cost_index * budget_multiplier * (Scale \div 1000))
    IN  [accommodation |-> daily("accommodation"), food |-> daily("food"),
         local_transport |-> daily("local_transport"), activities |-> daily("activities"),
         total |-> daily("accommodation") + daily("food") + daily("local_transport")
                   + daily("activities")]

\* The nights of a stay counted as its days.
accommodation_nights_as_days(duration_days) == Max(1, duration_days)

\* Line 369.
accommodation_nights(duration_days) == Max(1, duration_days - 1)

\* Line 388: round(recommended_cost * 2 * travelers) of the unrounded cost.
transportation_to_dest_of(recommended_cost, travelers) ==
    Round0(recommended_cost * 2 * travelers)

\* Lines 355-453.  transportation_details is NoneDict and distance_km None
\* where the code leaves the keys out.
calculate_trip_costs(destination, duration_days, budget, travelers, user_latitude, user_longitude, dest_latitude, dest_longitude) ==
    LET daily_costs == calculate_daily_costs(destination, budget)
        total_accommodation ==
            daily_costs.accommodation * accommodation_nights(duration_days) * travelers
        total_food == daily_costs.food * duration_days * travelers
        total_local_transport == daily_costs.local_transport * duration_days * travelers
        total_activities == daily_costs.activities * duration_days * travelers
        located == /\ Truthy(user_latitude) /\ Truthy(user_longitude)
                   /\ Truthy(dest_latitude) /\ Truthy(dest_longitude)
        distance_km ==
            IF located
            THEN CostCalculationService_calculate_distance(
                     user_latitude, user_longitude, dest_latitude, dest_longitude)
            ELSE None
        transport_options ==
            IF located THEN CostCalculationService_calculate_transportation_cost(distance_km)
            ELSE NoneDict
        transportation_to_dest ==
            IF located
            THEN transportation_to_dest_of(transport_options.recommended_cost, travelers)
            ELSE 0
        transport_modes ==
            [mode \in DOMAIN transport_options \ {"recommended", "recommended_cost"} |->
                [one_way_cost |-> transport_options[mode].cost,
                 round_trip_cost |-> transport_options[mode].cost * 2 * travelers,
                 duration_minutes |-> transport_options[mode].duration_minutes,
                 available |-> transport_options[mode].available]]
        transport_details ==
            IF located
            THEN [distance_km |-> Round1(distance_km),
                  recommended_mode |-> transport_options.recommended,
                  recommended_cost_one_way |-> Round0(transport_options.recommended_cost),
                  recommended_cost_round_trip |-> transportation_to_dest,
                  all_options |-> transport_modes]
            ELSE NoneDict
        misc_costs ==
            Round0((total_accommodation + total_food + total_local_transport
                    + total_activities) * (Scale \div 10))
        total_cost ==
            total_accommodation + total_food + total_local_transport + total_activities
            + transportation_to_dest + misc_costs
    IN  [destination |-> destination,
         duration_days |-> duration_days,
         budget_category |-> budget,
         travelers |-> travelers,
         currency |-> "INR",
         cost_breakdown |->
             [accommodation |-> total_accommodation,
              food |-> total_food,
              transportation_local |-> total_local_transport,
              transportation_to_destination |-> transportation_to_dest,
              activities |-> total_activities,
              miscellaneous |-> misc_costs,
              total |-> total_cost],
         per_person_cost |->
             IF travelers > 0 THEN RoundTo(total_cost, travelers) \div travelers ELSE 0,
         daily_breakdown |->
             [accommodation_per_night |-> daily_costs.accommodation,
              food_per_day |-> daily_costs.food,
              local_transport_per_day |-> daily_costs.local_transport,
              activities_per_day |-> daily_costs.activities],
         cost_index |-> get_destination_cost_index(destination),
         transportation_details |-> transport_details,
         distance_km |-> distance_km]

-----------------------------------------------------------------------------
(* Requests *)

MaxDest == 3

NoRequest == [none |-> TRUE]

\* The defaults of get_recommendations (limit 10, sort_by 'popularity',
\* trip_duration_days 3, every filter absent).
DefaultRequest ==
    [user_lat |-> None, user_lon |-> None, budget_min |-> None, budget_max |-> None,
     categories |-> {}, tags |-> <<>>, min_rating |-> None, max_distance_km |-> None,
     limit |-> 10, sort_by |-> "popularity", trip_duration_days |-> 3]

UserLocations == {<<None, None>>, <<10, 10>>, <<0, 10>>}

MaxDistances == {None, 0, 1500 * Scale}

SortOrders == {"popularity", "rating", "distance", "cost", "newest"}

Limits == {-1, 0, 2, 10}

\* Requests that vary the order, the location and the limit.
SortRequests ==
    {[DefaultRequest EXCEPT !.user_lat = u[1], !.user_lon = u[2],
                            !.sort_by = s, !.limit = l] :
        u \in UserLocations, s \in SortOrders, l \in {l \in Limits : l > 0}}

\* Requests that carry a distance filter.
DistanceRequests ==
    {[DefaultRequest EXCEPT !.user_lat = u[1], !.user_lon = u[2],
                            !.max_distance_km = m, !.sort_by = s, !.limit = l] :
        u \in UserLocations, m \in MaxDistances \ {None},
        s \in {"popularity", "distance"}, l \in {l \in Limits : l > 0}}

\* Requests with a limit of 0 or less.
LimitRequests ==
    {[DefaultRequest EXCEPT !.user_lat = u[1], !.user_lon = u[2],
                            !.max_distance_km = m, !.sort_by = s, !.limit = l] :
        u \in {<<None, None>>, <<10, 10>>}, m \in {None, 1500 * Scale},
        s \in {"popularity", "cost"}, l \in {l \in Limits : l <= 0}}

\* Requests for a trip of no days, or of a negative number of days
\* (trip_duration_days is parsed with type=int and not checked).
DurationRequests ==
    {[DefaultRequest EXCEPT !.user_lat = 10, !.user_lon = 10,
                            !.max_distance_km = m, !.trip_duration_days = n] :
        m \in MaxDistances, n \in {0, -1}}

\* Requests that vary the filters of the query.
FilterRequests ==
    {[DefaultRequest EXCEPT !.user_lat = 10, !.user_lon = 10,
                            !.budget_min = bmin, !.budget_max = bmax,
                            !.categories = c, !.tags = t, !.min_rating = r] :
        bmin \in {None, 50 * Scale}, bmax \in {None, 100 * Scale},
        c \in {{}, {"beach", "park"}}, t \in {<<>>, << <<"a", "r", "t">>, <<"s", "k", "i">> >>},
        r \in {None, 4 * Scale}}

\* Requests whose tags hold a character LIKE reads as a wildcard.
WildcardRequests ==
    {[DefaultRequest EXCEPT !.user_lat = 10, !.user_lon = 10, !.tags = t] :
        t \in {<< <<"a", "_", "t">> >>, << <<"%">> >>}}

Requests ==
    SortRequests \cup DistanceRequests \cup LimitRequests \cup DurationRequests
    \cup FilterRequests \cup WildcardRequests

-----------------------------------------------------------------------------
(* Direct calls of the two static cost functions.  call holds the function  *)
(* and arguments of the last direct call, ret the value it returned.        *)

\* No direct call has been made.
NoCall ==
    [fn |-> "none", distance_km |-> None, duration_days |-> None,
     destination_daily_cost |-> None, budget_tier |-> NoneStr]

\* calculate_transportation_cost(distance_km)
TransportCall(d) == [NoCall EXCEPT !.fn = "calculate_transportation_cost", !.distance_km = d]

\* calculate_comprehensive_budget(distance_km, duration_days,
\* destination_daily_cost, budget_tier)
BudgetCall(d, n, c, t) ==
    [fn |-> "calculate_comprehensive_budget", distance_km |-> d, duration_days |-> n,
     destination_daily_cost |-> c, budget_tier |-> t]

\* The value the called function returns; neither function raises.
Apply(c) ==
    IF c.fn = "calculate_transportation_cost"
    THEN calculate_transportation_cost(c.distance_km)
    ELSE calculate_comprehensive_budget(c.distance_km, c.duration_days,
                                        c.destination_daily_cost, c.budget_tier)

\* Distances in 1/10000 km: each band, its two ends and the four boundaries.
TransportDistances ==
    {0, 10 * Scale, 499800, 50 * Scale, 100 * Scale, 2999800, 300 * Scale, 6505000,
     9999800, 1000 * Scale, 1500 * Scale, 29999800, 3000 * Scale, 5000 * Scale}

\* One distance in each band, and 0 and 100 km.
BudgetDistances == {0, 15 * Scale, 100 * Scale, 6505000, 1500 * Scale, 5000 * Scale}

\* duration_days is an unchecked int.
Durations == {-1, 0, 1, 3, 7}

\* Daily costs 33.2, 80, 160 and 240.
DailyCosts == {332000, 80 * Scale, 160 * Scale, 240 * Scale}

\* The three tiers of the multiplier tables, a tier that is in neither table,
\* and None.
BudgetTiers == {"budget", "mid-range", "luxury", "premium", NoneStr}

\* Budget calls with a daily cost of 100, and with two daily costs one cent
\* apart.
CloseCostCalls ==
    {BudgetCall(0, 3, 100 * Scale, "mid-range"),
     BudgetCall(0, 1, 113000, "budget"), BudgetCall(0, 1, 113100, "budget")}

\* Three days on either side of the 1000 km boundary of the transport bands.
BoundaryCalls ==
    {BudgetCall(d, 3, 80 * Scale, "mid-range") : d \in {900 * Scale, 9999800, 1000 * Scale}}

BudgetCalls ==
    {BudgetCall(d, n, c, t) :
        d \in BudgetDistances, n \in Durations, c \in DailyCosts, t \in BudgetTiers}
    \cup CloseCostCalls \cup BoundaryCalls

\* The calls SpecPure repeats.
PureCalls ==
    {BudgetCall(d, 3, c, t) :
        d \in {0, 100 * Scale}, c \in {80 * Scale, 160 * Scale}, t \in {"budget", NoneStr}}
    \cup {TransportCall(d) : d \in {0, 100 * Scale, 5000 * Scale}}

\* No call is remembered.
NoMemo == [call |-> NoCall, ret |-> NoneDict, between |-> FALSE]

\* A caller evaluates calculate_transportation_cost.
calculate_transportation_cost_call ==
    /\ \E d \in TransportDistances :
          /\ call' = TransportCall(d)
          /\ ret' = Apply(TransportCall(d))
    /\ UNCHANGED <<destinations, pc, request, result, memo, trip_plans, trip_participants, handlers>>

\* A caller evaluates calculate_comprehensive_budget.
calculate_comprehensive_budget_call ==
    /\ \E c \in BudgetCalls :
          /\ call' = c
          /\ ret' = Apply(c)
    /\ UNCHANGED <<destinations, pc, request, result, memo, trip_plans, trip_participants, handlers>>

\* A caller evaluates one of the two functions, whatever request is in
\* progress.  The call and its value may be remembered, once, for a later
\* comparison; between notes that a different call was made since.
direct_call ==
    /\ \E c \in PureCalls :
          /\ call' = c
          /\ ret' = Apply(c)
          /\ \/ /\ memo = NoMemo
                /\ memo' \in {memo, [call |-> c, ret |-> Apply(c), between |-> FALSE]}
             \/ /\ memo # NoMemo
                /\ memo' = [memo EXCEPT !.between = @ \/ c # memo.call]
    /\ UNCHANGED <<destinations, pc, request, result, trip_plans, trip_participants, handlers>>

-----------------------------------------------------------------------------
(* Direct calls of the static functions of CostCalculationService and of    *)
(* the two Haversine functions.                                             *)

\* CostCalculationService.calculate_transportation_cost(distance_km)
LocaleTransportCall(d) ==
    [fn |-> "CostCalculationService.calculate_transportation_cost", distance_km |-> d]

\* CostCalculationService.calculate_trip_costs(destination, duration_days,
\* budget, travelers, user_latitude, user_longitude, dest_latitude,
\* dest_longitude)
TripCostsCall(destination, duration_days, budget, travelers, user, dest) ==
    [fn |-> "CostCalculationService.calculate_trip_costs", destination |-> destination,
     duration_days |-> duration_days, budget |-> budget, travelers |-> travelers,
     user_latitude |-> user[1], user_longitude |-> user[2],
     dest_latitude |-> dest[1], dest_longitude |-> dest[2]]

\* calculate_distance(lat1, lon1, lat2, lon2) of the named service.
DistanceCall(service, from, to) ==
    [fn |-> service, lat1 |-> from[1], lon1 |-> from[2], lat2 |-> to[1], lon2 |-> to[2]]

\* Distances in 1/10000 km: each band of the locale table, its ends, the
\* four boundaries, the 300 km threshold of the flight and the 3000 km
\* threshold of the train.
LocaleDistances ==
    {0, 101000, 199900, 20 * Scale, 380305, 999900, 100 * Scale, 1095056, 300 * Scale,
     3000100, 4999900, 500 * Scale, 11119493, 14999900, 1500 * Scale, 29999900,
     3000 * Scale, 66720730, 20000 * Scale}

TripDestinations == {"mumbai", "bangalore", "jaipur", "tokyo", "atlantis"}

TripDurations == {-1, 0, 1, 2, 5}

TripBudgets == {"budget", "mid-range", "luxury", "premium"}

Travelers == {0, 1, 2, 3}

\* The user's saved or geocoded home, None when there is none.
TripUserLocations == {<<None, None>>, <<10, 10>>, <<70, 10>>, <<0, 10>>}

\* The destination's stored or geocoded coordinates.
TripDestLocations == {<<None, None>>, <<10, 10>>, <<10, 11>>, <<70, 11>>, <<20, 10>>}

\* Calls that vary the stay, with one journey; calls that vary the journey
\* and the travelers, with one stay.
TripCostsCalls ==
    {TripCostsCall(destination, duration_days, budget, travelers, <<10, 10>>, <<20, 10>>) :
        destination \in TripDestinations, duration_days \in TripDurations,
        budget \in TripBudgets, travelers \in Travelers}
    \cup
    {TripCostsCall("bangalore", 2, "mid-range", travelers, user, dest) :
        travelers \in Travelers \ {0}, user \in TripUserLocations, dest \in TripDestLocations}

\* The coordinates of the table of RecommendationService.calculate_distance.
RecommendationServicePoints == {<<lat, lon>> : lat \in {0, 10, 20}, lon \in {10, 20}}

\* A caller evaluates CostCalculationService.calculate_transportation_cost.
CostCalculationService_calculate_transportation_cost_call ==
    /\ \E d \in LocaleDistances :
          /\ call' = LocaleTransportCall(d)
          /\ ret' = CostCalculationService_calculate_transportation_cost(d)
    /\ UNCHANGED <<destinations, pc, request, result, memo, trip_plans, trip_participants, handlers>>

\* A caller evaluates CostCalculationService.calculate_trip_costs.
calculate_trip_costs_call ==
    /\ \E c \in TripCostsCalls :
          /\ call' = c
          /\ ret' = calculate_trip_costs(c.destination, c.duration_days, c.budget, c.travelers,
                                         c.user_latitude, c.user_longitude,
                                         c.dest_latitude, c.dest_longitude)
    /\ UNCHANGED <<destinations, pc, request, result, memo, trip_plans, trip_participants, handlers>>

\* A caller evaluates RecommendationService.calculate_distance.
calculate_distance_call ==
    /\ \E from \in RecommendationServicePoints, to \in RecommendationServicePoints :
          /\ call' = DistanceCall("RecommendationService.calculate_distance", from, to)
          /\ ret' = [distance |-> calculate_distance(from[1], from[2], to[1], to[2])]
    /\ UNCHANGED <<destinations, pc, request, result, memo, trip_plans, trip_participants, handlers>>

\* A caller evaluates CostCalculationService.calculate_distance.
CostCalculationService_calculate_distance_call ==
    /\ \E from \in CostServicePoints, to \in CostServicePoints :
          /\ call' = DistanceCall("CostCalculationService.calculate_distance", from, to)
          /\ ret' = [distance |-> CostCalculationService_calculate_distance(
                                      from[1], from[2], to[1], to[2])]
    /\ UNCHANGED <<destinations, pc, request, result, memo, trip_plans, trip_participants, handlers>>

-----------------------------------------------------------------------------
(* Trip plans (app.py, collaborative_service.py).  trip_plans is the table  *)
(* of plans, a plan's id its position; trip_participants is the table of    *)
(* participant rows in the order of their insertion; handlers holds, for    *)
(* each request the server is working on at once, how far its handler has   *)
(* come, and for a finished one the status of its response.  A handler      *)
(* reads the committed tables; other requests run between its reads and     *)
(* its commit.                                                              *)

MaxPlans == 1

MaxRequests == 2

\* The registered users; an email is the id of its user, or UnknownEmail.
Users == 1..3

UnknownEmail == 0

\* The values a client sends as max_participants.
MaxParticipantsSent == {0, 1, 2}

\* No request in the slot; status is that of the response last sent from it
\* (0 before any).
Idle(status) == [op |-> "none", plan_id |-> 0, user_id |-> 0, status |-> status]

\* A handler between two of its steps.
Working(op, plan_id, user_id) ==
    [op |-> op, plan_id |-> plan_id, user_id |-> user_id, status |-> 0]

TripParticipant(trip_plan_id, user_id, role) ==
    [trip_plan_id |-> trip_plan_id, user_id |-> user_id, role |-> role]

\* TripParticipant.query.filter_by(trip_plan_id=..., user_id=...).first()
\* finds a row.
ParticipantExists(trip_plan_id, user_id) ==
    \E i \in DOMAIN trip_participants :
        /\ trip_participants[i].trip_plan_id = trip_plan_id
        /\ trip_participants[i].user_id = user_id

\* len(trip_plan.participants), and
\* TripParticipant.query.filter_by(trip_plan_id=...).count().
ParticipantCount(trip_plan_id) ==
    Cardinality({i \in DOMAIN trip_participants :
                    trip_participants[i].trip_plan_id = trip_plan_id})

\* The role of a user in a plan, NoneStr for none.
RoleIn(trip_plan_id, user_id) ==
    IF ParticipantExists(trip_plan_id, user_id)
    THEN (CHOOSE r \in {trip_participants[i] : i \in DOMAIN trip_participants} :
             r.trip_plan_id = trip_plan_id /\ r.user_id = user_id).role
    ELSE NoneStr

\* db.session.add(row); db.session.commit(): the row is inserted unless the
\* constraint unique_trip_participant (models.py 115) rejects it, in which
\* case the handler rolls back and answers failed.
InsertParticipant(h, row, done, failed) ==
    IF ParticipantExists(row.trip_plan_id, row.user_id)
    THEN /\ trip_participants' = trip_participants
         /\ handlers' = [handlers EXCEPT ![h] = Idle(failed)]
    ELSE /\ trip_participants' = Append(trip_participants, row)
         /\ handlers' = [handlers EXCEPT ![h] = Idle(done)]

\* POST /api/trip-plans, to its first commit (lines 1007-1034): the plan is
\* stored with the max_participants sent.
api_trip_plans_post ==
    /\ Len(trip_plans) < MaxPlans
    /\ \E h \in 1..MaxRequests, current_user \in Users, max_participants \in MaxParticipantsSent :
          /\ handlers[h].op = "none"
          /\ trip_plans' = Append(trip_plans, [creator_id |-> current_user,
                                               max_participants |-> max_participants])
          /\ handlers' = [handlers EXCEPT
                             ![h] = Working("create", Len(trip_plans) + 1, current_user)]
    /\ UNCHANGED trip_participants
    /\ UNCHANGED rankvars

\* POST /api/trip-plans, from its first commit on (lines 1036-1045): the
\* creator becomes a participant.
api_trip_plans_post_participant ==
    /\ \E h \in 1..MaxRequests :
          /\ handlers[h].op = "create"
          /\ InsertParticipant(
                 h, TripParticipant(handlers[h].plan_id, handlers[h].user_id, "creator"),
                 201, 500)
    /\ UNCHANGED trip_plans
    /\ UNCHANGED rankvars

\* PUT /api/trip-plans/<plan_id> with max_participants in its body (lines
\* 1057-1066 and 1117-1132): refused unless the user is a participant with
\* the role creator or editor.
api_trip_plan_detail_put ==
    /\ \E h \in 1..MaxRequests, current_user \in Users, plan_id \in 1..Len(trip_plans), max_participants \in MaxParticipantsSent :
          /\ handlers[h].op = "none"
          /\ IF RoleIn(plan_id, current_user) \in {"creator", "editor"}
             THEN /\ trip_plans' = [trip_plans EXCEPT
                                       ![plan_id].max_participants = max_participants]
                  /\ handlers' = [handlers EXCEPT ![h] = Idle(200)]
             ELSE /\ trip_plans' = trip_plans
                  /\ handlers' = [handlers EXCEPT ![h] = Idle(403)]
    /\ UNCHANGED trip_participants
    /\ UNCHANGED rankvars

\* The status api_invite_to_trip_plan answers with when it refuses (lines
\* 1168-1190), 0 when every check passes.
InviteRefusal(plan_id, current_user, email) ==
    IF plan_id \notin 1..Len(trip_plans) THEN 404
    ELSE IF trip_plans[plan_id].creator_id # current_user THEN 403
    ELSE IF email = UnknownEmail THEN 404
    ELSE IF ParticipantExists(plan_id, email) THEN 409
    ELSE IF ParticipantCount(plan_id) >= trip_plans[plan_id].max_participants THEN 400
    ELSE 0

\* POST /api/trip-plans/<plan_id>/invite, its checks (lines 1166-1190).
api_invite_to_trip_plan ==
    /\ \E h \in 1..MaxRequests, current_user \in Users, plan_id \in 1..MaxPlans, email \in Users \cup {UnknownEmail} :
          /\ handlers[h].op = "none"
          /\ handlers' = [handlers EXCEPT
                             ![h] = IF InviteRefusal(plan_id, current_user, email) = 0
                                    THEN Working("invite", plan_id, email)
                                    ELSE Idle(InviteRefusal(plan_id, current_user, email))]
    /\ UNCHANGED <<trip_plans, trip_participants>>
    /\ UNCHANGED rankvars

\* POST /api/trip-plans/<plan_id>/invite, its insert (lines 1192-1206).
api_invite_to_trip_plan_commit ==
    /\ \E h \in 1..MaxRequests :
          /\ handlers[h].op = "invite"
          /\ InsertParticipant(
                 h, TripParticipant(handlers[h].plan_id, handlers[h].user_id, "participant"),
                 200, 500)
    /\ UNCHANGED trip_plans
    /\ UNCHANGED rankvars

\* The refusal of CollaborativeService.invite_participant (lines 54-82) as a
\* status, 0 when every check passes: the inviter has to be a participant.
ServiceInviteRefusal(trip_plan_id, inviter_id, invitee_email) ==
    IF trip_plan_id \notin 1..Len(trip_plans) THEN 404
    ELSE IF ~ParticipantExists(trip_plan_id, inviter_id) THEN 403
    ELSE IF invitee_email = UnknownEmail THEN 404
    ELSE IF ParticipantExists(trip_plan_id, invitee_email) THEN 409
    ELSE IF ParticipantCount(trip_plan_id) >= trip_plans[trip_plan_id].max_participants THEN 400
    ELSE 0

\* CollaborativeService.invite_participant, its checks (lines 52-82).
invite_participant ==
    /\ \E h \in 1..MaxRequests, inviter_id \in Users, trip_plan_id \in 1..MaxPlans, invitee_email \in Users \cup {UnknownEmail} :
          /\ handlers[h].op = "none"
          /\ handlers' = [handlers EXCEPT
                             ![h] = IF ServiceInviteRefusal(trip_plan_id, inviter_id, invitee_email) = 0
                                    THEN Working("invite_participant", trip_plan_id, invitee_email)
                                    ELSE Idle(ServiceInviteRefusal(trip_plan_id, inviter_id,
                                                                   invitee_email))]
    /\ UNCHANGED <<trip_plans, trip_participants>>
    /\ UNCHANGED rankvars

\* CollaborativeService.invite_participant, its insert (lines 84-104).
invite_participant_commit ==
    /\ \E h \in 1..MaxRequests :
          /\ handlers[h].op = "invite_participant"
          /\ InsertParticipant(
                 h, TripParticipant(handlers[h].plan_id, handlers[h].user_id, "participant"),
                 200, 500)
    /\ UNCHANGED trip_plans
    /\ UNCHANGED rankvars

-----------------------------------------------------------------------------
(* The handlers *)

Init ==
    /\ destinations = <<>>
    /\ pc = "idle"
    /\ request = NoRequest
    /\ result = <<>>
    /\ call = NoCall
    /\ ret = NoneDict
    /\ memo = NoMemo
    /\ trip_plans = <<>>
    /\ trip_participants = <<>>
    /\ handlers = [h \in 1..MaxRequests |-> Idle(0)]

\* POST /api/destinations: the row is stored as sent, under the next id.
api_destinations_post ==
    /\ pc = "idle"
    /\ Len(destinations) < MaxDest
    /\ \E dest \in DestinationPool(Len(destinations) + 1) :
          destinations' = Append(destinations, dest)
    /\ UNCHANGED <<pc, request, result, call, ret, memo, trip_plans, trip_participants, handlers>>

\* api_recommendations counting each request in the popularity_score of the
\* rows it returns.
api_recommendations_counting_views ==
    /\ pc = "idle"
    /\ \E req \in Requests :
          /\ request' = req
          /\ result' = get_recommendations(destinations, req)
          /\ destinations' =
                [k \in DOMAIN destinations |->
                    IF \E i \in DOMAIN get_recommendations(destinations, req) :
                           get_recommendations(destinations, req)[i].id = k
                    THEN [destinations[k] EXCEPT !.popularity_score = Scale]
                    ELSE destinations[k]]
    /\ pc' = "responded"
    /\ UNCHANGED <<call, ret, memo, trip_plans, trip_participants, handlers>>

\* GET /api/recommendations of a user without a saved home location: the
\* parsed arguments go to get_recommendations unchanged.
api_recommendations ==
    /\ pc = "idle"
    /\ \E req \in Requests :
          /\ request' = req
          /\ result' = get_recommendations(destinations, req)
    /\ pc' = "responded"
    /\ UNCHANGED <<destinations, call, ret, memo, trip_plans, trip_participants, handlers>>

\* The response has been sent; the recommendations are not kept.
api_recommendations_return ==
    /\ pc = "responded"
    /\ pc' = "idle"
    /\ request' = NoRequest
    /\ result' = <<>>
    /\ UNCHANGED <<destinations, call, ret, memo, trip_plans, trip_participants, handlers>>

\* The maintenance job runs update_popularity_scores on the whole table in
\* one transaction and is handed the number of rows; it may be run again at
\* once.
update_popularity_scores_call ==
    /\ pc \in {"idle", "updated"}
    /\ destinations' = update_popularity_scores(destinations)
    /\ ret' = [updated |-> Len(destinations)]
    /\ pc' = "updated"
    /\ UNCHANGED <<request, result, call, memo, trip_plans, trip_participants, handlers>>

\* The job is over.
update_popularity_scores_return ==
    /\ pc = "updated"
    /\ pc' = "idle"
    /\ ret' = NoneDict
    /\ UNCHANGED <<destinations, request, result, call, memo, trip_plans, trip_participants, handlers>>

Next ==
    \/ api_destinations_post
    \/ api_recommendations
    \/ api_recommendations_return

Spec == Init /\ [][Next]_vars

\* The two cost functions called directly, in any order.
NextBudget ==
    \/ calculate_transportation_cost_call
    \/ calculate_comprehensive_budget_call

SpecBudget == Init /\ [][NextBudget]_vars

\* A table with a mid-range and a budget destination, both with coordinates,
\* as two POST /api/destinations leave it.
SeededTable ==
    << CHOOSE d \in DestinationPool(1) : d.budget_tier = "mid-range",
       CHOOSE d \in DestinationPool(2) : d.budget_tier = "budget" >>

InitPure ==
    /\ destinations = SeededTable
    /\ pc = "idle"
    /\ request = NoRequest
    /\ result = <<>>
    /\ call = NoCall
    /\ ret = NoneDict
    /\ memo = NoMemo
    /\ trip_plans = <<>>
    /\ trip_participants = <<>>
    /\ handlers = [h \in 1..MaxRequests |-> Idle(0)]

\* Direct calls between ranking requests over the seeded table.
NextPure ==
    \/ direct_call
    \/ api_recommendations
    \/ api_recommendations_return

SpecPure == InitPure /\ [][NextPure]_vars

\* Destinations are posted and the maintenance job runs, in any order.
NextMaintenance ==
    \/ api_destinations_post
    \/ update_popularity_scores_call
    \/ update_popularity_scores_return

SpecMaintenance == Init /\ [][NextMaintenance]_vars

\* The functions of the cost service and the two distance functions called
\* directly, in any order.
NextCost ==
    \/ CostCalculationService_calculate_transportation_cost_call
    \/ calculate_trip_costs_call
    \/ calculate_distance_call
    \/ CostCalculationService_calculate_distance_call

SpecCost == Init /\ [][NextCost]_vars

\* Trip plans are created, updated and invited to by requests that run at
\* once.
NextTripPlan ==
    \/ api_trip_plans_post
    \/ api_trip_plans_post_participant
    \/ api_trip_plan_detail_put
    \/ api_invite_to_trip_plan
    \/ api_invite_to_trip_plan_commit
    \/ invite_participant
    \/ invite_participant_commit

SpecTripPlan == Init /\ [][NextTripPlan]_vars

-----------------------------------------------------------------------------
(* Properties of a ranking response.  In a state with pc = "responded",     *)
(* result is what get_recommendations returned for request over the table   *)
(* destinations; a row's id is its position in the table.                   *)

Responded == pc = "responded"

Returned == 1..Len(result)

\* The row a recommendation was built from.
RowOf(rec) == destinations[rec.id]

\* The distance the ranker computed for a returned recommendation (None when
\* it computed none); distance_km itself is rounded and is null for 0 km.
ComputedDistance(rec) == DistanceOf(RowOf(rec), request.user_lat, request.user_lon)

UserCoordinatesSupplied == request.user_lat # None /\ request.user_lon # None

\* C1: with maxDistanceKm set, every returned recommendation has both the
\* user's and its own coordinates and lies within maxDistanceKm of the user;
\* in particular nothing is returned when the user's coordinates are missing.
C1_WithinMaxDistance ==
    (Responded /\ Truthy(request.max_distance_km)) =>
        \A i \in Returned :
            /\ UserCoordinatesSupplied
            /\ result[i].latitude # None /\ result[i].longitude # None
            /\ calculate_distance(request.user_lat, request.user_lon,
                                  result[i].latitude, result[i].longitude)
                   <= request.max_distance_km

HasWildcard(tag) == \E i \in 1..Len(tag) : tag[i] \in {"%", "_"}

\* The filters of the request, stated of a returned recommendation.
PassedTheFilters(rec) ==
    /\ request.budget_min # None =>
          rec.average_cost_per_day # None /\ rec.average_cost_per_day >= request.budget_min
    /\ request.budget_max # None =>
          rec.average_cost_per_day # None /\ rec.average_cost_per_day <= request.budget_max
    /\ request.categories # {} => rec.category \in request.categories
    /\ request.min_rating # None => rec.rating # None /\ rec.rating >= request.min_rating
    /\ request.tags # <<>> =>
          \E k \in 1..Len(request.tags) :
              IF HasWildcard(request.tags[k])
              THEN LikeMatch(rec.tags, <<"%">> \o request.tags[k] \o <<"%">>)
              ELSE \E i \in 0..(Len(rec.tags) - Len(request.tags[k])) :
                       SubSeq(rec.tags, i + 1, i + Len(request.tags[k])) = request.tags[k]
    /\ (Truthy(request.max_distance_km) /\ ComputedDistance(rec) # None) =>
          ComputedDistance(rec) <= request.max_distance_km

\* No row is returned twice, every returned recommendation is a row of the
\* table, unchanged, and it passed the filters.
SubsetOfFiltered ==
    /\ \A i, j \in Returned : result[i].id = result[j].id => i = j
    /\ \A i \in Returned :
          /\ result[i].id \in 1..Len(destinations)
          /\ result[i].average_cost_per_day = RowOf(result[i]).average_cost_per_day
          /\ result[i].category = RowOf(result[i]).category
          /\ result[i].rating = RowOf(result[i]).rating
          /\ result[i].tags = RowOf(result[i]).tags
          /\ PassedTheFilters(result[i])

Filtered == {k \in 1..Len(destinations) :
                PassesQuery(destinations[k], request) /\ ~Skipped(destinations[k], request)}

RequestedBranch == SortBranch(request.sort_by, request.user_lat, request.user_lon)

\* No filtered candidate that was left out goes strictly before a returned one
\* under the key of the requested order; the response holds filtered
\* candidates only, min(limit, number filtered) of them for limit >= 0.
PrefixOfSortedFiltered ==
    Responded =>
        /\ \A k \in Filtered :
              (\A i \in Returned : result[i].id # k) =>
                  \A i \in Returned :
                      ~Before(SortKey(Recommendation(destinations[k], request), RequestedBranch),
                              SortKey(result[i], RequestedBranch),
                              Reverse(RequestedBranch))
        /\ request.limit >= 0 => Len(result) = Min(request.limit, Cardinality(Filtered))
        /\ \A i \in Returned : result[i].id \in Filtered

\* The end-to-end scenario of the specification.
C4_Scenario ==
    /\ Len(destinations) = 3
    /\ <<destinations[1].popularity_score, destinations[2].popularity_score,
         destinations[3].popularity_score>> = <<10 * Scale, 5 * Scale, 1 * Scale>>
    /\ <<destinations[1].rating, destinations[2].rating, destinations[3].rating>>
           = <<4 * Scale, 5 * Scale, 3 * Scale>>
    /\ <<destinations[1].review_count, destinations[2].review_count,
         destinations[3].review_count>> = <<50, 200, 0>>
    /\ \A k \in 1..3 : destinations[k].average_cost_per_day = None
    /\ Responded
    /\ request = [DefaultRequest EXCEPT !.limit = 2]

DistanceOrInf(rec) == IF ComputedDistance(rec) = None THEN Inf ELSE ComputedDistance(rec)

\* C5: with the user's coordinates supplied and sort_by = 'distance', the
\* response is in non-decreasing order of distance from the user, unknown
\* distances after all known ones; a known distance of 0 km sorts first.
\* (Stated for a user latitude and longitude other than 0, where the ranker
\* takes the distance branch of its sort.)
C5_SortedByDistance ==
    (Responded /\ Truthy(request.user_lat) /\ Truthy(request.user_lon)
     /\ request.sort_by = "distance") =>
        \A i, j \in Returned :
            i < j => DistanceOrInf(result[i]) <= DistanceOrInf(result[j])

\* The sort_by values the ranker knows.
KnownSortOrders == {"popularity", "rating", "distance", "cost"}

\* C6: with sort_by = 'popularity', the default and the fallback of every
\* unrecognised sort_by, the response is in non-increasing order of
\* recommendation_score; and under every sort order two recommendations with
\* equal sort keys keep the order of the candidate list (the table order).
C6_PopularityOrderAndStability ==
    Responded =>
        /\ request.sort_by \notin (KnownSortOrders \ {"popularity"}) =>
              \A i, j \in Returned :
                  i < j => result[i].recommendation_score >= result[j].recommendation_score
        /\ \A i, j \in Returned :
              (i < j /\ SortKey(result[i], RequestedBranch) = SortKey(result[j], RequestedBranch))
                  => result[i].id < result[j].id

\* C6 witness: an unrecognised sort_by; three recommendations come back, the
\* first two with equal scores and the third with a lower one.
C6_Witness ==
    /\ Responded
    /\ request.sort_by = "newest"
    /\ Len(result) = 3
    /\ result[1].recommendation_score = result[2].recommendation_score
    /\ result[2].recommendation_score > result[3].recommendation_score
    /\ result[3].id < result[2].id

\* C7: with sort_by = 'rating' the response is in non-increasing order of
\* rating, a missing rating counting as 0; with sort_by = 'cost' it is in
\* non-decreasing order of averageCostPerDay, a missing cost counting as +inf.
C7_SortedByRatingOrCost ==
    Responded =>
        /\ request.sort_by = "rating" =>
              \A i, j \in Returned :
                  i < j => (IF result[i].rating = None THEN 0 ELSE result[i].rating)
                           >= (IF result[j].rating = None THEN 0 ELSE result[j].rating)
        /\ request.sort_by = "cost" =>
              \A i, j \in Returned :
                  i < j => (IF result[i].average_cost_per_day = None THEN Inf
                            ELSE result[i].average_cost_per_day)
                           <= (IF result[j].average_cost_per_day = None THEN Inf
                               ELSE result[j].average_cost_per_day)

\* None counts as the default.
IfNone(x, default) == IF x = None THEN default ELSE x

\* 0.4 * popularityScore + 0.3 * rating + 0.01 * reviewCount of a returned
\* recommendation, missing values replaced by 0, 3.0 and 0.
PopularityRatingReviews(rec) ==
    MulC(IfNone(rec.popularity_score, 0), 4, 10)
    + MulC(IfNone(rec.rating, 3 * Scale), 3, 10)
    + MulC(IfNone(rec.review_count, 0) * Scale, 1, 100)

\* The distance term applies: maxDistanceKm supplied (and not 0) and the
\* distance known.
DistanceTermApplies(rec) ==
    Truthy(request.max_distance_km) /\ ComputedDistance(rec) # None

\* 0.1 * max(0, (maxDistanceKm - distance) / maxDistanceKm) if and only if
\* the distance term applies.
ProximityBonus(rec) ==
    IF DistanceTermApplies(rec)
    THEN MulC(Max(0, Quotient(request.max_distance_km - ComputedDistance(rec),
                              request.max_distance_km, Scale)), 1, 10)
    ELSE 0

\* 0.2 * affordabilityComponent, the component being the one the ranker
\* computed for the recommendation.
AffordabilityShare(rec) == AffordabilityTerm(RowOf(rec), rec.total_trip_cost)

BothTermsApply(rec) == Truthy(rec.total_trip_cost) /\ DistanceTermApplies(rec)

AffordabilityComponent(rec) ==
    IF rec.budget_breakdown # NoneDict
    THEN Max(0, MulC(5000 * Scale - rec.budget_breakdown.total, 1, 5000)) * 5
    ELSE 5 * Scale - MulC(OrElse(rec.average_cost_per_day, 100 * Scale), 1, 50)

\* C10: the affordability component that enters the score is
\* max(0, (5000 - total) / 5000) * 5 exactly when a budget breakdown was
\* computed (distance known and daily cost present), for every total
\* including 0, and the fallback 5.0 - (averageCostPerDay or 100) / 50 only
\* when none was computed.
C10_AffordabilityFromBreakdown ==
    Responded =>
        \A i \in Returned :
            /\ result[i].budget_breakdown # NoneDict <=>
                   (ComputedDistance(result[i]) # None
                    /\ Truthy(result[i].average_cost_per_day))
            /\ result[i].recommendation_score =
                   Round2(PopularityRatingReviews(result[i])
                          + MulC(AffordabilityComponent(result[i]), 2, 10)
                          + ProximityBonus(result[i]))

-----------------------------------------------------------------------------
(* Properties of the transport estimate.  After a direct call, call holds   *)
(* the arguments and ret the returned value; the estimate of a budget call  *)
(* is the transportation_options of its breakdown.                          *)

IsTransportCall == call.fn = "calculate_transportation_cost"

IsBudgetCall == call.fn = "calculate_comprehensive_budget"

Called == IsTransportCall \/ IsBudgetCall

TransportEstimate == IF IsTransportCall THEN ret ELSE ret.transportation_options

\* The modes an estimate offers: its keys other than 'recommended'.
ModesOffered(estimate) == DOMAIN estimate \ {"recommended"}

\* The band table, by half-open intervals of the distance in km.
InBand(d, lower, upper) == lower * Scale <= d /\ d < upper * Scale

ModesOfBand(d) ==
    IF InBand(d, 0, 50) THEN {"bus", "taxi"}
    ELSE IF InBand(d, 50, 300) THEN {"bus", "train", "taxi"}
    ELSE IF InBand(d, 300, 1000) THEN {"train", "budget_flight", "standard_flight"}
    ELSE IF InBand(d, 1000, 3000) THEN {"budget_flight", "standard_flight", "premium_flight"}
    ELSE {"budget_flight", "standard_flight", "business_flight"}

RecommendedOfBand(d) == IF d < 300 * Scale THEN "bus" ELSE "budget_flight"

\* C11: for every distance the estimate offers exactly the modes of the band
\* that contains the distance, and carries one recommended cost, equal to the
\* cost of bus below 300 km and of budget_flight from 300 km on.
C11_ModesAndRecommendedOfBand ==
    Called =>
        LET d == call.distance_km
            estimate == TransportEstimate
        IN  /\ ModesOffered(estimate) = ModesOfBand(d)
            /\ "recommended" \in DOMAIN estimate
            /\ estimate.recommended = estimate[RecommendedOfBand(d)]

\* A distance of the last band has been priced: business class is offered.
C11_Witness ==
    /\ IsTransportCall
    /\ call.distance_km >= 3000 * Scale
    /\ "business_flight" \in DOMAIN ret
    /\ ret.recommended = ret.budget_flight

\* x * n / d rounded to 2 decimals, computed exactly: x * n / d is
\* whole + part / d with 0 <= part < d.
ExactRound2(x, n, d) ==
    LET cent == Scale \div 100
        whole == (x \div d) * n + ((x % d) * n) \div d
        part == ((x % d) * n) % d
        cents == whole \div cent
        rest == whole % cent
    IN  IF 2 * rest < cent THEN cents * cent
        ELSE IF 2 * rest > cent \/ part > 0 THEN (cents + 1) * cent
        ELSE IF cents % 2 = 0 THEN cents * cent ELSE (cents + 1) * cent

\* base + rate * (d - from), rate in hundredths per km, rounded to 2 decimals.
Linear(base, rate, from, d) == base * Scale + ExactRound2(d - from * Scale, rate, 100)

\* The cost formulas of the band table, per mode.
CostOfBand(d) ==
    IF InBand(d, 0, 50) THEN
        [bus |-> Linear(0, 50, 0, d), taxi |-> Linear(0, 150, 0, d)]
    ELSE IF InBand(d, 50, 300) THEN
        [bus |-> Linear(50, 15, 50, d), train |-> Linear(40, 20, 50, d),
         taxi |-> Linear(0, 120, 0, d)]
    ELSE IF InBand(d, 300, 1000) THEN
        [train |-> Linear(80, 12, 300, d), budget_flight |-> Linear(100, 25, 300, d),
         standard_flight |-> Linear(150, 35, 300, d)]
    ELSE IF InBand(d, 1000, 3000) THEN
        [budget_flight |-> Linear(250, 15, 1000, d),
         standard_flight |-> Linear(400, 20, 1000, d),
         premium_flight |-> Linear(800, 30, 1000, d)]
    ELSE
        [budget_flight |-> Linear(550, 8, 3000, d),
         standard_flight |-> Linear(900, 12, 3000, d),
         business_flight |-> Linear(2000, 25, 3000, d)]

BandBoundaries == {50 * Scale, 300 * Scale, 1000 * Scale, 3000 * Scale}

\* C12: the bands are the half-open intervals [0,50), [50,300), [300,1000),
\* [1000,3000), [3000,inf), so a distance equal to a boundary is priced by
\* the upper band, and the cost of each mode is the linear formula of the
\* band rounded to 2 decimals; bus costs 0 at 0 km and train 50.0 at 100 km.
C12_HalfOpenBandsAndRoundedCosts ==
    Called =>
        LET d == call.distance_km
            estimate == TransportEstimate
        IN  /\ \A mode \in ModesOffered(estimate) :
                  /\ mode \in DOMAIN CostOfBand(d)
                  /\ estimate[mode] = CostOfBand(d)[mode]
            /\ d = 0 => estimate.bus = 0
            /\ d = 100 * Scale => estimate.train = 50 * Scale

\* A boundary distance has been priced, by the band above it.
C12_Witness ==
    /\ IsTransportCall
    /\ call.distance_km = 50 * Scale
    /\ ret.train = 40 * Scale
    /\ ret.bus = 50 * Scale

-----------------------------------------------------------------------------
(* Properties of the budget breakdown.  The components are stated on the    *)
(* exact product of the daily cost and the number of days.                  *)

KnownTiers == {"budget", "mid-range", "luxury"}

\* The multipliers of the tiers, in tenths.
AccommodationMultiplierOfTier(tier) ==
    IF tier = "budget" THEN 6 ELSE IF tier = "mid-range" THEN 10 ELSE 25

FoodMultiplierOfTier(tier) ==
    IF tier = "budget" THEN 7 ELSE IF tier = "mid-range" THEN 10 ELSE 20

\* C13: for the tiers budget, mid-range and luxury, accommodation is
\* c*0.4*am*n, food c*0.35*fm*n, local_transport c*0.15*am*n, activities
\* c*0.10*n and miscellaneous (food + activities)*0.15 on the unrounded food
\* and activities, each rounded to 2 decimals, with am 0.6/1.0/2.5 and fm
\* 0.7/1.0/2.0.
C13_ComponentsOfBreakdown ==
    (IsBudgetCall /\ call.budget_tier \in KnownTiers) =>
        LET cn == call.destination_daily_cost * call.duration_days
            am == AccommodationMultiplierOfTier(call.budget_tier)
            fm == FoodMultiplierOfTier(call.budget_tier)
        IN  /\ ret.accommodation = ExactRound2(cn, 4 * am, 100)
            /\ ret.food = ExactRound2(cn, 35 * fm, 1000)
            /\ ret.local_transport = ExactRound2(cn, 15 * am, 1000)
            /\ ret.activities = ExactRound2(cn, 10, 100)
            /\ ret.miscellaneous = ExactRound2(cn, (35 * fm + 100) * 15, 100000)

\* A luxury budget for 3 days at 160 a day: accommodation 480, food 336,
\* local transport 180, activities 48.
C13_Witness ==
    /\ IsBudgetCall
    /\ call.budget_tier = "luxury"
    /\ call.duration_days = 3
    /\ call.destination_daily_cost = 160 * Scale
    /\ ret.accommodation = 480 * Scale
    /\ ret.food = 336 * Scale
    /\ ret.local_transport = 180 * Scale
    /\ ret.activities = 48 * Scale

\* A daily cost that is a multiple of 0.4: the unrounded subtotal is then a
\* whole number of 1/10000.
ExactSubtotal == IsBudgetCall /\ call.budget_tier \in KnownTiers
                 /\ call.destination_daily_cost % 4000 = 0

\* transportation + accommodation + food + local_transport + activities
\* + miscellaneous before rounding: per 0.4 of daily cost and day the
\* components come to 0.4 * (0.55*am + 0.4025*fm + 0.115).
UnroundedSubtotal ==
    LET am == AccommodationMultiplierOfTier(call.budget_tier)
        fm == FoodMultiplierOfTier(call.budget_tier)
    IN  2 * TransportEstimate.recommended
        + (call.destination_daily_cost \div 4000) * call.duration_days
          * (220 * am + 161 * fm + 460)

\* C14: transportation is twice the recommended one-way cost of the estimate
\* for the same distance, subtotal is the sum of the six unrounded
\* components, insurance 5% of it, contingency 10% of subtotal + insurance,
\* total their sum (1.155 * subtotal), each rounded to 2 decimals at output
\* only.
C14_TotalsOfBreakdown ==
    /\ IsBudgetCall =>
          /\ ret.transportation_options = calculate_transportation_cost(call.distance_km)
          /\ ret.transportation = 2 * ret.transportation_options.recommended
    /\ ExactSubtotal =>
          /\ ret.subtotal = ExactRound2(UnroundedSubtotal, 1, 1)
          /\ ret.insurance = ExactRound2(UnroundedSubtotal, 5, 100)
          /\ ret.contingency = ExactRound2(UnroundedSubtotal, 105, 1000)
          /\ ret.total = ExactRound2(UnroundedSubtotal, 1155, 1000)

\* A mid-range budget for 3 days at 100 a day and no distance: subtotal
\* 320.25, insurance 16.01, contingency 33.63, total 369.89.
C14_Witness ==
    /\ call = BudgetCall(0, 3, 100 * Scale, "mid-range")
    /\ ret.transportation = 0
    /\ ret.subtotal = 3202500
    /\ ret.insurance = 160100
    /\ ret.contingency = 336300
    /\ ret.total = 3698900

\* C15: for duration_days <= 0 a breakdown is returned and its
\* per_day_average is 0; for duration_days > 0 per_day_average is the
\* unrounded total divided by duration_days, rounded to 2 decimals.
C15_PerDayAverage ==
    /\ (IsBudgetCall /\ call.duration_days <= 0) =>
          /\ "total" \in DOMAIN ret
          /\ ret.per_day_average = 0
    /\ (ExactSubtotal /\ call.duration_days > 0) =>
          ret.per_day_average
              = ExactRound2(UnroundedSubtotal, 1155, 1000 * call.duration_days)

\* A budget for a negative number of days has been returned, with a
\* negative accommodation and a per_day_average of 0.
C15_Witness ==
    /\ IsBudgetCall
    /\ call.duration_days < 0
    /\ ret.accommodation < 0
    /\ ret.per_day_average = 0

-----------------------------------------------------------------------------
(* Invalid arguments.  Neither function has a raise statement; a rejection  *)
(* would be a returned value with an error in it.                           *)

Rejected(value) == "error" \in DOMAIN value

\* C16: a budget tier that is none of budget, mid-range, luxury, and is not
\* absent, is rejected with an error and not priced with the mid-range
\* multipliers.
C16_UnknownTierRejected ==
    (IsBudgetCall /\ call.budget_tier \notin KnownTiers /\ call.budget_tier # NoneStr)
        => Rejected(ret)

\* C17: a ranking request with a negative trip_duration_days is rejected: no
\* returned recommendation carries a budget breakdown, so none carries a
\* negative component or a negative total_trip_cost.
C17_NegativeDurationRejected ==
    (Responded /\ request.trip_duration_days < 0) =>
        \A i \in Returned : result[i].budget_breakdown = NoneDict

\* The other modelled budget calls with the distance, duration and tier of
\* the last call.
SameButCost ==
    {c \in BudgetCalls : /\ c.distance_km = call.distance_km
                         /\ c.duration_days = call.duration_days
                         /\ c.budget_tier = call.budget_tier}

PositiveTotalAtHundred ==
    call = BudgetCall(0, 3, 100 * Scale, "mid-range") => ret.total > 0

\* C18, as stated: the total for distance 0, 3 days, 100 a day, mid-range is
\* positive, and for a fixed distance, tier and duration > 0 the total is
\* strictly increasing in the daily cost.
C18_TotalStrictlyIncreasing ==
    /\ PositiveTotalAtHundred
    /\ (IsBudgetCall /\ call.duration_days > 0) =>
          \A c \in SameButCost :
              call.destination_daily_cost < c.destination_daily_cost
                  => ret.total < Apply(c).total

\* C18, amended: the total for distance 0, 3 days, 100 a day, mid-range is
\* positive, and for a fixed distance, tier and duration > 0 the total, which
\* is rounded to 2 decimals, is non-decreasing in the daily cost and strictly
\* increasing between daily costs at least 0.02 apart.
C18_TotalIncreasing ==
    /\ PositiveTotalAtHundred
    /\ (IsBudgetCall /\ call.duration_days > 0) =>
          \A c \in SameButCost :
              /\ call.destination_daily_cost < c.destination_daily_cost
                    => ret.total <= Apply(c).total
              /\ call.destination_daily_cost + 200 <= c.destination_daily_cost
                    => ret.total < Apply(c).total

\* One day at 11.30 a day, budget tier, has been priced at 9.49, and one day
\* at 11.31 costs the same.
C18_Witness ==
    /\ call = BudgetCall(0, 1, 113000, "budget")
    /\ ret.total = 94900
    /\ Apply(BudgetCall(0, 1, 113100, "budget")).total = 94900

-----------------------------------------------------------------------------
(* Purity and frame. *)

C20_RankLeavesDestinationsUnchanged ==
    [][(pc = "idle" /\ pc' = "responded") => destinations' = destinations]_vars

\* A ranking request over a full table has returned recommendations.
C20_Witness ==
    /\ Responded
    /\ Len(destinations) = MaxDest
    /\ result # <<>>

-----------------------------------------------------------------------------
(* Claims about missing data and the filters.                               *)

\* The distance of a returned recommendation can be computed: the user's and
\* the row's coordinates are all present.
DistanceComputable(rec) ==
    /\ UserCoordinatesSupplied
    /\ RowOf(rec).latitude # None
    /\ RowOf(rec).longitude # None

\* C21: in each returned recommendation distance_km is null exactly when the
\* distance could not be computed (user or destination coordinates missing),
\* and budget_breakdown and total_trip_cost are null exactly when the
\* distance is unknown or the daily cost is absent.
C21_NullExactlyWhenMissing ==
    Responded =>
        \A i \in Returned :
            /\ result[i].distance_km = None <=> ~DistanceComputable(result[i])
            /\ result[i].budget_breakdown = NoneDict <=>
                   (~DistanceComputable(result[i])
                    \/ RowOf(result[i]).average_cost_per_day = None)
            /\ result[i].total_trip_cost = None <=>
                   (~DistanceComputable(result[i])
                    \/ RowOf(result[i]).average_cost_per_day = None)

\* tag occurs in tags as a contiguous run of characters.
OccursIn(tag, tags) ==
    \E i \in 0..(Len(tags) - Len(tag)) :
        \A j \in 1..Len(tag) : tags[i + j] = tag[j]

\* A stored row satisfies every filter the request supplies.
SatisfiesEveryFilter(dest) ==
    /\ request.budget_min # None =>
          dest.average_cost_per_day # None
          /\ request.budget_min <= dest.average_cost_per_day
    /\ request.budget_max # None =>
          dest.average_cost_per_day # None
          /\ dest.average_cost_per_day <= request.budget_max
    /\ request.categories # {} => dest.category \in request.categories
    /\ request.min_rating # None =>
          dest.rating # None /\ dest.rating >= request.min_rating
    /\ request.max_distance_km # None =>
          /\ UserCoordinatesSupplied
          /\ dest.latitude # None /\ dest.longitude # None
          /\ calculate_distance(request.user_lat, request.user_lon,
                                dest.latitude, dest.longitude) <= request.max_distance_km
    /\ request.tags # <<>> =>
          \E k \in 1..Len(request.tags) : OccursIn(request.tags[k], dest.tags)

\* C22: the filters are AND-combined and each is optional: a candidate
\* passes (is returned, the limit allowing) if and only if it satisfies every
\* supplied filter, the tags filter being satisfied iff at least one requested
\* tag occurs as a substring of the stored tag string.
C22_PassesIffEveryFilter ==
    (Responded /\ request.limit >= Len(destinations)) =>
        {result[i].id : i \in Returned}
            = {k \in 1..Len(destinations) : SatisfiesEveryFilter(destinations[k])}

-----------------------------------------------------------------------------
(* Claims about the popularity maintenance job.                             *)

\* 0.5 * (rating or 3.0) + 0.3 * min(reviewCount / 100, 1.0) + 0.2, in
\* 1/10000; a missing review count counts as 0.
PopularityFormula(row) ==
    LET rating == IF row.rating = None \/ row.rating = 0 THEN 3 * Scale ELSE row.rating
        reviews == IF row.review_count = None THEN 0 ELSE row.review_count
        capped == IF reviews >= 100 THEN Scale ELSE reviews * (Scale \div 100)
    IN  (5 * rating + 3 * capped + 2 * Scale) \div 10

\* The job has just run.
Updated == pc = "updated"

\* C23: a run of the maintenance job sets every destination's popularityScore
\* to 0.5*(rating or 3.0) + 0.3*min(reviewCount/100, 1.0) + 0.2, whatever the
\* score was before, changes nothing else and returns the number of
\* destinations; a second run right after the first changes no score.
C23_IdempotentFullRecalculation ==
    [][Updated' =>
          /\ Len(destinations') = Len(destinations)
          /\ \A k \in 1..Len(destinations) :
                destinations'[k] =
                    [destinations[k] EXCEPT
                        !.popularity_score = PopularityFormula(destinations[k])]
          /\ ret' = [updated |-> Len(destinations)]
          /\ Updated => destinations' = destinations]_vars

\* C23 witness: the job has run over a full table and changed the score of
\* every row, one without a rating and one with more than 100 reviews among
\* them.
C23_Witness ==
    /\ Updated
    /\ Len(destinations) = MaxDest
    /\ ret = [updated |-> MaxDest]
    /\ \A k \in 1..MaxDest : destinations[k] \notin DestinationPool(k)
    /\ \E k \in 1..MaxDest : destinations[k].rating = None
    /\ \E k \in 1..MaxDest : destinations[k].review_count > 100

-----------------------------------------------------------------------------
(* Claims about the cost service.  After a direct call, call holds the      *)
(* function and its arguments and ret the value it returned.                *)

IsLocaleTransportCall == call.fn = "CostCalculationService.calculate_transportation_cost"

IsTripCostsCall == call.fn = "CostCalculationService.calculate_trip_costs"

\* The modes of a locale transport table.
LocaleModes(options) == DOMAIN options \ {"recommended", "recommended_cost"}

\* The modes the locale table offers at a distance, by half-open bands.
LocaleModesOfBand(d) ==
    IF InBand(d, 0, 20) THEN {"auto", "cab", "bus"}
    ELSE IF InBand(d, 20, 100) THEN {"bus", "train", "cab"}
    ELSE IF InBand(d, 100, 500) THEN {"bus", "train", "flight", "cab"}
    ELSE IF InBand(d, 500, 1500) THEN {"train", "flight", "bus"}
    ELSE {"flight", "train"}

\* C24: the locale transport table selects its band by the half-open
\* intervals [0,20), [20,100), [100,500), [500,1500), [1500,inf); every
\* offered mode carries a cost, a duration in minutes and an availability
\* flag; in the 100-500 band flight is available exactly above 300 km; and the
\* recommended mode is one of the offered modes and is marked available.
C24_LocaleBandsAndRecommendedMode ==
    IsLocaleTransportCall =>
        /\ LocaleModes(ret) = LocaleModesOfBand(call.distance_km)
        /\ \A mode \in LocaleModes(ret) :
              /\ {"cost", "duration_minutes", "available"} \subseteq DOMAIN ret[mode]
              /\ ret[mode].cost \in Nat
              /\ ret[mode].duration_minutes \in Nat
              /\ ret[mode].available \in BOOLEAN
        /\ InBand(call.distance_km, 100, 500) =>
              (ret.flight.available <=> call.distance_km > 300 * Scale)
        /\ ret.recommended \in LocaleModes(ret)
        /\ ret[ret.recommended].available

\* C24 witness: the table for exactly 100 km, which is that of the 100-500
\* band, with its flight unavailable.
C24_Witness ==
    /\ IsLocaleTransportCall
    /\ call.distance_km = 100 * Scale
    /\ LocaleModes(ret) = {"bus", "train", "flight", "cab"}
    /\ ~ret.flight.available
    /\ ret.recommended = "train"

\* The nights billed for a stay.
NightsBilled(duration_days) == IF duration_days - 1 > 1 THEN duration_days - 1 ELSE 1

\* The four categories of the breakdown that depend on the length of stay.
FourCategories(breakdown) ==
    breakdown.accommodation + breakdown.food + breakdown.transportation_local
    + breakdown.activities

\* C25: calculate_trip_costs bills accommodation for max(1, durationDays - 1)
\* nights and food, local transport and activities for durationDays days,
\* all times travelers; miscellaneous is 10% of the four summed categories
\* (to the nearest rupee); the breakdown has no other layer, and its total is
\* exactly accommodation + food + transportation_local + activities
\* + transportation_to_destination + miscellaneous as reported.
C25_TripCostBreakdown ==
    IsTripCostsCall =>
        LET breakdown == ret.cost_breakdown
            daily == ret.daily_breakdown
        IN  /\ breakdown.accommodation =
                   daily.accommodation_per_night * NightsBilled(call.duration_days)
                   * call.travelers
            /\ breakdown.food = daily.food_per_day * call.duration_days * call.travelers
            /\ breakdown.transportation_local =
                   daily.local_transport_per_day * call.duration_days * call.travelers
            /\ breakdown.activities =
                   daily.activities_per_day * call.duration_days * call.travelers
            /\ 10 * breakdown.miscellaneous - FourCategories(breakdown) \in -5..5
            /\ DOMAIN breakdown =
                   {"accommodation", "food", "transportation_local", "activities",
                    "transportation_to_destination", "miscellaneous", "total"}
            /\ breakdown.total =
                   FourCategories(breakdown) + breakdown.transportation_to_destination
                   + breakdown.miscellaneous

\* C25 witness: a stay of 5 days for 3 travelers with a journey, where the
\* nights are fewer than the days and 10% of the four categories is not a
\* whole number of rupees.
C25_Witness ==
    /\ IsTripCostsCall
    /\ call.duration_days = 5
    /\ call.travelers = 3
    /\ ret.cost_breakdown.transportation_to_destination > 0
    /\ ret.cost_breakdown.accommodation = ret.daily_breakdown.accommodation_per_night * 4 * 3
    /\ FourCategories(ret.cost_breakdown) % 10 # 0

IsDistanceCall ==
    call.fn \in {"RecommendationService.calculate_distance",
                 "CostCalculationService.calculate_distance"}

\* The distance the called service gives from the second point of the call
\* to the first.
DistanceBack ==
    IF call.fn = "RecommendationService.calculate_distance"
    THEN calculate_distance(call.lat2, call.lon2, call.lat1, call.lon1)
    ELSE CostCalculationService_calculate_distance(call.lat2, call.lon2, call.lat1, call.lon1)

\* C26: the Haversine distance of either service is 0 for two identical
\* points and is the same in both directions (to 1/10000 km).
C26_DistanceZeroAndSymmetric ==
    IsDistanceCall =>
        /\ (call.lat1 = call.lat2 /\ call.lon1 = call.lon2) => ret.distance = 0
        /\ ret.distance = DistanceBack

\* C26 witness: the distance between two points that differ in latitude and
\* longitude, from the cost service.
C26_Witness ==
    /\ call.fn = "CostCalculationService.calculate_distance"
    /\ call.lat1 # call.lat2
    /\ call.lon1 # call.lon2
    /\ ret.distance > 0

\* C29: in every result of calculate_trip_costs that carries
\* transportation_details, for travelers >= 1, recommended_cost_one_way is
\* the one_way_cost of the recommended mode in all_options, and
\* recommended_cost_round_trip, which is also the breakdown's
\* transportation_to_destination, is that mode's round_trip_cost.
C29_RecommendedAgreesWithTable ==
    (IsTripCostsCall /\ call.travelers >= 1 /\ ret.transportation_details # NoneDict) =>
        LET details == ret.transportation_details
            recommended == details.all_options[details.recommended_mode]
        IN  /\ details.recommended_cost_one_way = recommended.one_way_cost
            /\ details.recommended_cost_round_trip = recommended.round_trip_cost
            /\ details.recommended_cost_round_trip =
                   ret.cost_breakdown.transportation_to_destination

-----------------------------------------------------------------------------
(* Claims about coordinates of value 0 and about the cost of distance.      *)

\* A stored row on the equator or the prime meridian, both coordinates
\* present.
OnEquatorOrPrimeMeridian(row) ==
    /\ row.latitude # None /\ row.longitude # None
    /\ row.latitude = 0 \/ row.longitude = 0

\* The request has no filter but, possibly, the distance filter.
OnlyDistanceFilter ==
    /\ request.budget_min = None /\ request.budget_max = None
    /\ request.categories = {} /\ request.tags = <<>> /\ request.min_rating = None

\* C27: a destination whose latitude or longitude is 0 is treated as having
\* coordinates: when user coordinates are supplied, a returned one carries
\* its distance and, if it has a daily cost, a budget breakdown, and with
\* maxDistanceKm set it is kept if and only if its distance is <=
\* maxDistanceKm.
C27_ZeroIsACoordinate ==
    (Responded /\ UserCoordinatesSupplied) =>
        \A k \in 1..Len(destinations) :
            OnEquatorOrPrimeMeridian(destinations[k]) =>
                LET row == destinations[k]
                    distance == calculate_distance(request.user_lat, request.user_lon,
                                                   row.latitude, row.longitude)
                    kept == \E i \in Returned : result[i].id = k
                IN  /\ \A i \in Returned :
                          result[i].id = k =>
                              /\ result[i].distance_km = Round1(distance)
                              /\ row.average_cost_per_day # None =>
                                     result[i].budget_breakdown # NoneDict
                    /\ (Truthy(request.max_distance_km) /\ kept) =>
                           distance <= request.max_distance_km
                    /\ (Truthy(request.max_distance_km) /\ OnlyDistanceFilter
                        /\ request.limit >= Len(destinations)
                        /\ distance <= request.max_distance_km) => kept

\* The budget calls that differ from the call made in the distance only.
SameButDistance ==
    {c \in BudgetCalls : /\ c.duration_days = call.duration_days
                         /\ c.destination_daily_cost = call.destination_daily_cost
                         /\ c.budget_tier = call.budget_tier}

\* C28, as stated: the one-way recommended transport cost is non-decreasing
\* in the distance over the whole range, the band boundaries at 50, 300, 1000
\* and 3000 km included, and so are the transportation and the total of a
\* budget when only the distance grows.
C28_RecommendedNonDecreasing ==
    /\ IsTransportCall =>
          \A d \in TransportDistances :
              call.distance_km <= d =>
                  ret.recommended <= Apply(TransportCall(d)).recommended
    /\ IsBudgetCall =>
          \A c \in SameButDistance :
              call.distance_km <= c.distance_km =>
                  /\ ret.transportation <= Apply(c).transportation
                  /\ ret.total <= Apply(c).total

\* The pairs of distances d1 < 1000 km <= d2 for which 100 + 0.25 (d1 - 300)
\* is more than 250 + 0.15 (d2 - 1000).
DropAcrossThousand(d1, d2) ==
    /\ 900 * Scale < d1 /\ d1 < 1000 * Scale
    /\ 1000 * Scale <= d2
    /\ 3 * (d2 - 1000 * Scale) < 5 * (d1 - 900 * Scale)

\* C28, amended: d1 <= d2 implies recommended(d1) <= recommended(d2), across
\* the boundaries at 50, 300 and 3000 km too, except across the boundary at
\* 1000 km, where the cost falls from 100 + 0.25 (d - 300) to
\* 250 + 0.15 (d - 1000): the exception is 900 < d1 < 1000 <= d2 with
\* d2 < 1000 + (d1 - 900) * 5 / 3.  For every other pair the transportation
\* and the total of a budget do not decrease when only the distance grows.
C28_RecommendedNonDecreasingButAtThousand ==
    /\ IsTransportCall =>
          \A d \in TransportDistances :
              (call.distance_km <= d /\ ~DropAcrossThousand(call.distance_km, d)) =>
                  ret.recommended <= Apply(TransportCall(d)).recommended
    /\ IsBudgetCall =>
          \A c \in SameButDistance :
              (call.distance_km <= c.distance_km
               /\ ~DropAcrossThousand(call.distance_km, c.distance_km)) =>
                  /\ ret.transportation <= Apply(c).transportation
                  /\ ret.total <= Apply(c).total

\* C28 witness: three days at 900 km have been priced; the same at 999.98 km
\* costs more and at 1000 km costs the same as at 900 km.
C28_Witness ==
    /\ call = BudgetCall(900 * Scale, 3, 80 * Scale, "mid-range")
    /\ ret.transportation = Apply(BudgetCall(1000 * Scale, 3, 80 * Scale, "mid-range")).transportation
    /\ ret.total < Apply(BudgetCall(9999800, 3, 80 * Scale, "mid-range")).total
    /\ Apply(BudgetCall(1000 * Scale, 3, 80 * Scale, "mid-range")).total
           < Apply(BudgetCall(9999800, 3, 80 * Scale, "mid-range")).total

-----------------------------------------------------------------------------
(* Claims about the participants of trip plans.                             *)

\* C30: in every reachable state, under any interleaving of create, invite
\* and update requests, each plan has at most max_participants participants
\* and no user is a participant of the same plan twice.
C30_ParticipantsWithinLimit ==
    /\ \A plan_id \in 1..Len(trip_plans) :
          ParticipantCount(plan_id) <= trip_plans[plan_id].max_participants
    /\ \A i, j \in DOMAIN trip_participants :
          (/\ trip_participants[i].trip_plan_id = trip_participants[j].trip_plan_id
           /\ trip_participants[i].user_id = trip_participants[j].user_id) => i = j

=============================================================================
